---- MODULE Spec2Model ----
(***************************************************************************)
(* A model of the BOA campaign store: the campaign write lock              *)
(* (db/repository.py), the campaign status machine, the proposal ledger    *)
(* (core/ledger.py, core/engine.py), the bundle importer                   *)
(* (cli/export_import.py) and the job queue (db/job_queue.py).             *)
(*                                                                         *)
(* The database is the shared state.  Every caller works through its own   *)
(* SQLAlchemy session, so a repository call is a SELECT followed later by  *)
(* the INSERT / UPDATE / DELETE its flush emits; other sessions may run    *)
(* between the two.  A call is therefore modelled by a read step and a     *)
(* flush step, with the values the call read kept in the session record.   *)
(***************************************************************************)
EXTENDS Integers, Sequences, FiniteSets, TLC

\* ------------------------------------------------------------------ bounds
NumSessions == 2
NumCampaigns == 1
MaxTime == 2
MaxTTL == 2
MaxJobs == 2
MaxCampaigns == 1
MaxIterations == 2
MaxBundleLen == 1
MaxAccepted == 1
NumStrategies == 2
MaxProposals == 2
MaxObservations == 2
NumNames == 2
MaxProcesses == 3
MaxSaves == 2
MaxAge == 1
MaxKeep == 1
MaxBatch == 2
MaxStrategyNames == 2

MaxImports == 1

MaxY == 4
MaxPoints == 3

MaxCandidates == 1
TicksPerSecond == 2

Sessions == 1..NumSessions
Campaigns == 1..NumCampaigns
Times == 0..MaxTime
TTLs == 1..MaxTTL

VARIABLES
    now,             \* datetime.utcnow(), in ticks
    campaign_locks,  \* table campaign_locks: rows keyed by campaign_id
    lsess,           \* per session: position inside a lock call, its locals, its last result
    jobs,            \* table jobs, in insertion order; a job's id is its position
    jsess,           \* per session: position inside a job-queue call, its locals, its last result
    returned,        \* per job: how many dequeue calls have returned it
    campaigns,       \* table campaigns, in insertion order; an id is a position
    iterations,      \* table iterations, in insertion order; an id is a position
    decisions,       \* table decisions, in insertion order
    csess,           \* per session: position inside a campaign call, its locals, its last result
    proposals,       \* table proposals, in insertion order
    observations,    \* table observations, in insertion order
    processes,       \* table processes, in insertion order; an id is a position
    psess,           \* per session: position inside a process call, its locals, its last result
    checkpoint_files,\* the campaign's checkpoint directory: path -> the save that wrote the file
    ksess            \* per session: position inside ModelCheckpointer.save, its locals

lockState == <<campaign_locks, lsess>>
jobState == <<jobs, jsess, returned>>
campState == <<campaigns, iterations, decisions, csess>>
ledgerState == <<proposals, observations>>
procState == <<processes, psess>>
fileState == <<checkpoint_files, ksess>>

vars == <<now, campaign_locks, lsess, jobs, jsess, returned,
          campaigns, iterations, decisions, csess, proposals, observations,
          processes, psess, checkpoint_files, ksess>>

\* ============================================================ write lock

\* A row of campaign_locks.
CampaignLock(c, by, at, exp) ==
    [campaign_id |-> c, locked_by |-> by, locked_at |-> at, expires_at |-> exp]

\* session.get(CampaignLock, campaign_id): the rows with that primary key.
get_lock(c) == {l \in campaign_locks : l.campaign_id = c}

\* A session that is inside no call, holding `holds` (0: nothing) until `until`.
\* `by` is the locked_by argument of a release (0: None); `prev` is the holder
\* of the row a granted acquire took over (0: it found no row).
LSession(holds, until, result, exc_by, exc_exp) ==
    [pc |-> "idle", campaign_id |-> 0, loaded |-> {}, locked_at |-> 0,
     expires_at |-> 0, expired |-> {}, holds |-> holds, until |-> until,
     by |-> 0, prev |-> 0,
     result |-> result, exc_locked_by |-> exc_by, exc_expires_at |-> exc_exp]

\* The clock advances.
Tick ==
    /\ now < MaxTime
    /\ now' = now + 1
    /\ UNCHANGED <<lockState, jobState, procState, fileState, campState, ledgerState>>

\* A variant of acquire_write_lock_check that takes the expired rows of other
\* holders, not the unexpired ones, as blocking.
acquire_write_lock_check_expired(s, c, ttl) ==
    /\ lsess[s].pc = "idle"
    /\ LET existing == get_lock(c)
           blocked == \E l \in existing : l.expires_at <= now /\ l.locked_by # s
       IN IF blocked
          THEN LET l == CHOOSE l \in existing : TRUE
               IN lsess' = [lsess EXCEPT ![s] =
                     LSession(@.holds, @.until, "CampaignLockedError",
                              l.locked_by, l.expires_at)]
          ELSE lsess' = [lsess EXCEPT ![s] =
                     [@ EXCEPT !.pc = "acquire_flush", !.campaign_id = c,
                               !.loaded = existing, !.locked_at = now,
                               !.expires_at = now + ttl, !.result = "none",
                               !.by = 0, !.prev = 0,
                               !.exc_locked_by = 0, !.exc_expires_at = 0]]
    /\ UNCHANGED <<now, campaign_locks, jobState, procState, fileState, campState, ledgerState>>

\* A variant of acquire_write_lock_check that takes every row of another
\* holder as blocking, expired or not.
acquire_write_lock_check_strict(s, c, ttl) ==
    /\ lsess[s].pc = "idle"
    /\ LET existing == get_lock(c)
           blocked == \E l \in existing : l.locked_by # s
       IN IF blocked
          THEN LET l == CHOOSE l \in existing : TRUE
               IN lsess' = [lsess EXCEPT ![s] =
                     LSession(@.holds, @.until, "CampaignLockedError",
                              l.locked_by, l.expires_at)]
          ELSE lsess' = [lsess EXCEPT ![s] =
                     [@ EXCEPT !.pc = "acquire_flush", !.campaign_id = c,
                               !.loaded = existing, !.locked_at = now,
                               !.expires_at = now + ttl, !.result = "none",
                               !.by = 0, !.prev = 0,
                               !.exc_locked_by = 0, !.exc_expires_at = 0]]
    /\ UNCHANGED <<now, campaign_locks, jobState, procState, fileState, campState, ledgerState>>

\* acquire_write_lock, up to the flush: reads the clock and the row, raises
\* CampaignLockedError when an unexpired row belongs to another holder,
\* otherwise stages an UPDATE of the row read or an INSERT of a new row.
acquire_write_lock_check(s, c, ttl) ==
    /\ lsess[s].pc = "idle"
    /\ LET existing == get_lock(c)
           blocked == \E l \in existing : l.expires_at > now /\ l.locked_by # s
       IN IF blocked
          THEN LET l == CHOOSE l \in existing : TRUE
               IN lsess' = [lsess EXCEPT ![s] =
                     LSession(@.holds, @.until, "CampaignLockedError",
                              l.locked_by, l.expires_at)]
          ELSE lsess' = [lsess EXCEPT ![s] =
                     [@ EXCEPT !.pc = "acquire_flush", !.campaign_id = c,
                               !.loaded = existing, !.locked_at = now,
                               !.expires_at = now + ttl, !.result = "none",
                               !.by = 0, !.prev = 0,
                               !.exc_locked_by = 0, !.exc_expires_at = 0]]
    /\ UNCHANGED <<now, campaign_locks, jobState, procState, fileState, campState, ledgerState>>

\* A variant of update_lock_row that leaves expires_at as it is.
update_lock_row_keep_expiry(cur, old, s, at, exp) ==
    [campaign_id |-> cur.campaign_id,
     locked_by   |-> IF old.locked_by # s THEN s ELSE cur.locked_by,
     locked_at   |-> IF old.locked_at # at THEN at ELSE cur.locked_at,
     expires_at  |-> cur.expires_at]

\* The UPDATE the flush emits for a row the session loaded: it sets the
\* columns whose value the call changed, on the row with that primary key.
update_lock_row(cur, old, s, at, exp) ==
    [campaign_id |-> cur.campaign_id,
     locked_by   |-> IF old.locked_by # s THEN s ELSE cur.locked_by,
     locked_at   |-> IF old.locked_at # at THEN at ELSE cur.locked_at,
     expires_at  |-> IF old.expires_at # exp THEN exp ELSE cur.expires_at]

\* acquire_write_lock, the flush and the return.
acquire_write_lock_flush(s) ==
    /\ lsess[s].pc = "acquire_flush"
    /\ LET me == lsess[s]
           c == me.campaign_id
           cur == get_lock(c)
           granted == [LSession(c, me.expires_at, "True", 0, 0) EXCEPT !.prev =
                          IF me.loaded = {} THEN 0
                          ELSE (CHOOSE l \in me.loaded : TRUE).locked_by]
       IN IF me.loaded # {}
          THEN LET old == CHOOSE l \in me.loaded : TRUE
                   dirty == old.locked_by # s \/ old.locked_at # me.locked_at
                            \/ old.expires_at # me.expires_at
               IN IF ~dirty
                  THEN \* nothing changed: no statement is emitted
                       /\ campaign_locks' = campaign_locks
                       /\ lsess' = [lsess EXCEPT ![s] = granted]
                  ELSE IF cur = {}
                  THEN \* UPDATE matches no row
                       /\ campaign_locks' = campaign_locks
                       /\ lsess' = [lsess EXCEPT ![s] =
                             LSession(@.holds, @.until, "StaleDataError", 0, 0)]
                  ELSE /\ campaign_locks' =
                             (campaign_locks \ cur) \cup
                             {update_lock_row(l, old, s, me.locked_at, me.expires_at)
                                : l \in cur}
                       /\ lsess' = [lsess EXCEPT ![s] = granted]
          ELSE IF cur # {}
               THEN \* INSERT violates the primary key
                    /\ campaign_locks' = campaign_locks
                    /\ lsess' = [lsess EXCEPT ![s] =
                          LSession(@.holds, @.until, "IntegrityError", 0, 0)]
               ELSE /\ campaign_locks' = campaign_locks \cup
                          {CampaignLock(c, s, me.locked_at, me.expires_at)}
                    /\ lsess' = [lsess EXCEPT ![s] = granted]
    /\ UNCHANGED <<now, jobState, procState, fileState, campState, ledgerState>>

\* release_write_lock, up to the flush.  by = 0 stands for locked_by=None.
release_write_lock_check(s, c, by) ==
    /\ lsess[s].pc = "idle"
    /\ LET existing == get_lock(c)
           refused == existing = {}
                      \/ (by # 0 /\ \E l \in existing : l.locked_by # by)
           holds == IF lsess[s].holds = c THEN 0 ELSE lsess[s].holds
           until == IF lsess[s].holds = c THEN 0 ELSE lsess[s].until
       IN IF refused
          THEN lsess' = [lsess EXCEPT ![s] = LSession(holds, until, "False", 0, 0)]
          ELSE lsess' = [lsess EXCEPT ![s] =
                     [@ EXCEPT !.pc = "release_flush", !.campaign_id = c,
                               !.loaded = existing, !.result = "none",
                               !.holds = holds, !.until = until,
                               !.by = by, !.prev = 0,
                               !.exc_locked_by = 0, !.exc_expires_at = 0]]
    /\ UNCHANGED <<now, campaign_locks, jobState, procState, fileState, campState, ledgerState>>

\* release_write_lock, the flush: DELETE of the row with that primary key.
\* The lock of that campaign is released, whoever had been granted it.
release_write_lock_flush(s) ==
    /\ lsess[s].pc = "release_flush"
    /\ campaign_locks' = campaign_locks \ get_lock(lsess[s].campaign_id)
    /\ lsess' = [t \in Sessions |->
          IF t = s THEN LSession(lsess[s].holds, lsess[s].until, "True", 0, 0)
          ELSE IF lsess[t].holds = lsess[s].campaign_id
               THEN [lsess[t] EXCEPT !.holds = 0, !.until = 0]
               ELSE lsess[t]]
    /\ UNCHANGED <<now, jobState, procState, fileState, campState, ledgerState>>

\* cleanup_expired_locks, up to the flush: selects the expired rows.
cleanup_expired_locks_select(s) ==
    /\ lsess[s].pc = "idle"
    /\ LET expired == {l \in campaign_locks : l.expires_at <= now}
       IN lsess' = [lsess EXCEPT ![s] =
              [@ EXCEPT !.pc = "cleanup_flush",
                        !.expired = {l.campaign_id : l \in expired},
                        !.result = "none", !.by = 0, !.prev = 0,
                        !.exc_locked_by = 0, !.exc_expires_at = 0]]
    /\ UNCHANGED <<now, campaign_locks, jobState, procState, fileState, campState, ledgerState>>

\* cleanup_expired_locks, the flush: DELETE of each selected row by primary key.
cleanup_expired_locks_flush(s) ==
    /\ lsess[s].pc = "cleanup_flush"
    /\ campaign_locks' = {l \in campaign_locks : l.campaign_id \notin lsess[s].expired}
    /\ lsess' = [lsess EXCEPT ![s] = LSession(@.holds, @.until, "True", 0, 0)]
    /\ UNCHANGED <<now, jobState, procState, fileState, campState, ledgerState>>

\* ------------------------------------------------------------ lock claims

\* Session s has been granted the lock of campaign c, the grant has not been
\* released and has not expired.
HoldsLock(s, c) == lsess[s].holds = c /\ lsess[s].until > now

\* C3: an acquire by s on a campaign whose row is unexpired and belongs to
\* another holder raises CampaignLockedError carrying that holder and that
\* expiry, and leaves the table as it was.
C3_AcquireBlockedByOtherHolder ==
    [][\A s \in Sessions, c \in Campaigns, ttl \in TTLs :
         (acquire_write_lock_check(s, c, ttl)
          /\ \E l \in get_lock(c) : l.expires_at > now /\ l.locked_by # s)
         => /\ campaign_locks' = campaign_locks
            /\ lsess'[s].pc = "idle"
            /\ lsess'[s].result = "CampaignLockedError"
            /\ \E l \in get_lock(c) : /\ lsess'[s].exc_locked_by = l.locked_by
                                      /\ lsess'[s].exc_expires_at = l.expires_at
                                      /\ l.locked_by # s]_vars

\* C3 witness: a session was refused and the other holder's unexpired row is
\* still in the table.
C3_Witness ==
    \E s \in Sessions, l \in campaign_locks :
        /\ lsess[s].result = "CampaignLockedError"
        /\ lsess[s].exc_locked_by = l.locked_by
        /\ lsess[s].exc_expires_at = l.expires_at
        /\ l.locked_by # s
        /\ l.expires_at > now

\* C4: no two sessions hold an unexpired lock of the same campaign.
C4_MutualExclusion ==
    \A s1, s2 \in Sessions, c \in Campaigns :
        (HoldsLock(s1, c) /\ HoldsLock(s2, c)) => s1 = s2

C17_ReleaseOnlyByHolder ==
    [][/\ \A s \in Sessions, c \in Campaigns : \A by \in {0, s} :
            (release_write_lock_check(s, c, by)
             /\ (get_lock(c) = {}
                 \/ (by # 0 /\ \E l \in get_lock(c) : l.locked_by # by)))
            => /\ lsess'[s].result = "False"
               /\ lsess'[s].pc = "idle"
       /\ \A s \in Sessions :
            release_write_lock_flush(s)
            => /\ lsess'[s].result = "True"
               /\ get_lock(lsess[s].campaign_id) \cap campaign_locks' = {}
               /\ \A l \in campaign_locks \ campaign_locks' :
                     /\ l.campaign_id = lsess[s].campaign_id
                     /\ lsess[s].by = 0 \/ l.locked_by = lsess[s].by]_vars

\* C18: the sweep removes the rows it found expired and no row that is
\* unexpired when it is removed.
C18_SweepRemovesExpiredOnly ==
    [][\A s \in Sessions :
         cleanup_expired_locks_flush(s)
         => /\ \A l \in campaign_locks :
                  l.campaign_id \in lsess[s].expired => l \notin campaign_locks'
            /\ \A l \in campaign_locks \ campaign_locks' : l.expires_at <= now]_vars

\* ============================================================== job queue

NoTime == -1

\* A row of jobs as enqueue creates it.
Job(created) ==
    [status |-> "PENDING", created_at |-> created, started_at |-> NoTime,
     completed_at |-> NoTime, progress |-> -1, error |-> "none"]

\* The ids of the rows in the table; a deleted row keeps its position and has
\* the status "DELETED".
JobIds == {j \in 1..Len(jobs) : jobs[j].status # "DELETED"}

\* A session that is inside no job-queue call; `job` is the job its last call
\* returned (0: None).
JSession(result, job) == [pc |-> "idle", job |-> job, result |-> result]

\* enqueue: INSERT of a PENDING job.
enqueue(s) ==
    /\ jsess[s].pc = "idle"
    /\ Len(jobs) < MaxJobs
    /\ jobs' = Append(jobs, Job(now))
    /\ returned' = Append(returned, 0)
    /\ jsess' = [jsess EXCEPT ![s] = JSession("Job", 0)]
    /\ UNCHANGED <<now, lockState, procState, fileState, campState, ledgerState>>

\* A variant of oldest_pending for ORDER BY created_at DESC.
newest_pending ==
    {j \in JobIds : /\ jobs[j].status = "PENDING"
                    /\ \A k \in JobIds : jobs[k].status = "PENDING"
                                         => jobs[j].created_at >= jobs[k].created_at}

\* The rows SELECT ... WHERE status = PENDING ORDER BY created_at ASC LIMIT 1
\* may return: a pending job no other pending job is older than.
oldest_pending ==
    {j \in JobIds : /\ jobs[j].status = "PENDING"
                    /\ \A k \in JobIds : jobs[k].status = "PENDING"
                                         => jobs[j].created_at <= jobs[k].created_at}

\* A variant of dequeue_select that, with no PENDING job, takes the oldest
\* job of any status.
dequeue_select_any(s) ==
    /\ jsess[s].pc = "idle"
    /\ LET oldest == IF oldest_pending # {} THEN oldest_pending
                     ELSE {j \in JobIds : \A k \in JobIds :
                                             jobs[j].created_at <= jobs[k].created_at}
       IN IF oldest = {}
          THEN jsess' = [jsess EXCEPT ![s] = JSession("None", 0)]
          ELSE \E j \in oldest :
                  jsess' = [jsess EXCEPT ![s] =
                               [pc |-> "dequeue_flush", job |-> j, result |-> "none"]]
    /\ UNCHANGED <<now, lockState, procState, fileState, campState, ledgerState,
                   jobs, returned>>

\* dequeue, the SELECT: returns None on an empty queue, otherwise stages the
\* UPDATE of the selected job.
dequeue_select(s) ==
    /\ jsess[s].pc = "idle"
    /\ IF oldest_pending = {}
       THEN jsess' = [jsess EXCEPT ![s] = JSession("None", 0)]
       ELSE \E j \in oldest_pending :
               jsess' = [jsess EXCEPT ![s] =
                            [pc |-> "dequeue_flush", job |-> j, result |-> "none"]]
    /\ UNCHANGED <<now, lockState, procState, fileState, campState, ledgerState, jobs, returned>>

\* dequeue, the flush: UPDATE of the selected row by primary key, and the return.
dequeue_flush(s) ==
    /\ jsess[s].pc = "dequeue_flush"
    /\ LET j == jsess[s].job
       IN /\ jobs' = [jobs EXCEPT ![j] =
                         [@ EXCEPT !.status = "RUNNING", !.started_at = now]]
          /\ returned' = [returned EXCEPT ![j] = @ + 1]
          /\ jsess' = [jsess EXCEPT ![s] = JSession("Job", j)]
    /\ UNCHANGED <<now, lockState, procState, fileState, campState, ledgerState>>

\* complete: get_or_raise finds the row, the flush updates it by primary key.
complete(s, j) ==
    /\ jsess[s].pc = "idle"
    /\ j \in JobIds
    /\ jobs' = [jobs EXCEPT ![j] =
                   [@ EXCEPT !.status = "COMPLETED", !.completed_at = now,
                             !.progress = 1]]
    /\ jsess' = [jsess EXCEPT ![s] = JSession("Job", 0)]
    /\ UNCHANGED <<now, lockState, procState, fileState, campState, ledgerState, returned>>

\* fail: get_or_raise finds the row, the flush updates it by primary key.
fail(s, j) ==
    /\ jsess[s].pc = "idle"
    /\ j \in JobIds
    /\ jobs' = [jobs EXCEPT ![j] =
                   [@ EXCEPT !.status = "FAILED", !.completed_at = now,
                             !.error = "error"]]
    /\ jsess' = [jsess EXCEPT ![s] = JSession("Job", 0)]
    /\ UNCHANGED <<now, lockState, procState, fileState, campState, ledgerState, returned>>

\* cancel, up to the flush: raises on a RUNNING job, returns a terminal job as
\* it is, otherwise stages the UPDATE.
cancel_check(s, j) ==
    /\ jsess[s].pc = "idle"
    /\ j \in JobIds
    /\ jsess' = [jsess EXCEPT ![s] =
          IF jobs[j].status = "RUNNING" THEN JSession("JobAlreadyRunningError", 0)
          ELSE IF jobs[j].status \in {"COMPLETED", "FAILED", "CANCELLED"}
          THEN JSession("Job", 0)
          ELSE [pc |-> "cancel_flush", job |-> j, result |-> "none"]]
    /\ UNCHANGED <<now, lockState, procState, fileState, campState, ledgerState, jobs, returned>>

\* cancel, the flush: UPDATE of the row by primary key.
cancel_flush(s) ==
    /\ jsess[s].pc = "cancel_flush"
    /\ LET j == jsess[s].job
       IN /\ jobs' = [jobs EXCEPT ![j] =
                         [@ EXCEPT !.status = "CANCELLED", !.completed_at = now]]
          /\ jsess' = [jsess EXCEPT ![s] = JSession("Job", 0)]
    /\ UNCHANGED <<now, lockState, procState, fileState, campState, ledgerState, returned>>

\* ------------------------------------------------------- job queue claims

\* C10: no job is returned by dequeue more than once, to one worker or to two.
C10_DequeuedAtMostOnce == \A j \in JobIds : returned[j] <= 1

\* C11: the job a dequeue returns was PENDING until that dequeue marked it, no
\* PENDING job was created before it, and it is now RUNNING with started_at
\* the current time.
C11_DequeueOldestPending ==
    [][\A s \in Sessions :
         dequeue_flush(s)
         => LET j == jsess[s].job
            IN /\ jobs[j].status = "PENDING"
               /\ \A k \in JobIds : jobs[k].status = "PENDING"
                                      => jobs[j].created_at <= jobs[k].created_at
               /\ jobs'[j].status = "RUNNING"
               /\ jobs'[j].started_at = now]_vars

\* C12: complete and fail act only on a RUNNING job.
C12_TerminalOnlyFromRunning ==
    [][\A s \in Sessions, j \in 1..MaxJobs :
         (complete(s, j) \/ fail(s, j)) => jobs[j].status = "RUNNING"]_vars

\* C13: cancel writes a job only while the job is PENDING, and a CANCELLED
\* job is never made RUNNING.
C13_CancelOnlyPending ==
    [][/\ \A s \in Sessions :
            cancel_flush(s) => jobs[jsess[s].job].status = "PENDING"
       /\ \A j \in JobIds :
            jobs[j].status = "CANCELLED" => jobs'[j].status # "RUNNING"]_vars

JobNext ==
    \/ Tick
    \/ \E s \in Sessions : enqueue(s)
    \/ \E s \in Sessions : dequeue_select(s)
    \/ \E s \in Sessions : dequeue_flush(s)
    \/ \E s \in Sessions, j \in 1..MaxJobs : complete(s, j)
    \/ \E s \in Sessions, j \in 1..MaxJobs : fail(s, j)
    \/ \E s \in Sessions, j \in 1..MaxJobs : cancel_check(s, j)
    \/ \E s \in Sessions : cancel_flush(s)

\* --------------------------------------------------------- job queue cleanup

Terminal == {"COMPLETED", "FAILED", "CANCELLED"}

\* A session inside a cleanup call: the rows its SELECT returned.
JCleanup(pc, selected, keep_ids, arg) ==
    [pc |-> pc, job |-> 0, result |-> "none", selected |-> selected,
     keep_ids |-> keep_ids, arg |-> arg]

\* cleanup_stale, the SELECT: the RUNNING jobs started before the cutoff.
cleanup_stale_select(s, max_age_hours) ==
    /\ jsess[s].pc = "idle"
    /\ LET cutoff == now - max_age_hours
           stale_jobs == {j \in JobIds : /\ jobs[j].status = "RUNNING"
                                         /\ jobs[j].started_at < cutoff}
       IN jsess' = [jsess EXCEPT ![s] =
             JCleanup("stale_flush", stale_jobs, {}, max_age_hours)]
    /\ UNCHANGED <<now, lockState, procState, fileState, campState, ledgerState,
                   jobs, returned>>

\* cleanup_stale, the flush: UPDATE of each selected row by primary key; a
\* row that is no longer there makes the flush raise StaleDataError.
cleanup_stale_flush(s) ==
    /\ jsess[s].pc = "stale_flush"
    /\ IF jsess[s].selected \subseteq JobIds
       THEN /\ jobs' = [j \in 1..Len(jobs) |->
                          IF j \in jsess[s].selected
                          THEN [jobs[j] EXCEPT !.status = "FAILED",
                                               !.error = "Job timed out",
                                               !.completed_at = now]
                          ELSE jobs[j]]
            /\ jsess' = [jsess EXCEPT ![s] = JSession("int", 0)]
       ELSE /\ jobs' = jobs
            /\ jsess' = [jsess EXCEPT ![s] = JSession("StaleDataError", 0)]
    /\ UNCHANGED <<now, lockState, procState, fileState, campState, ledgerState,
                   returned>>

\* The results SELECT id ... WHERE status IN (terminal) ORDER BY completed_at
\* DESC LIMIT keep_last may have: keep_last terminal jobs, or all of them if
\* they are fewer, none completed before a terminal job that is left out.
most_recent_terminal(keep_last) ==
    LET terminal == {j \in JobIds : jobs[j].status \in Terminal}
    IN {K \in SUBSET terminal :
          /\ Cardinality(K) = IF Cardinality(terminal) < keep_last
                              THEN Cardinality(terminal) ELSE keep_last
          /\ \A k \in K, o \in terminal \ K :
                jobs[k].completed_at >= jobs[o].completed_at}

\* cleanup_completed, the first SELECT: the ids to keep.
cleanup_completed_keep(s, keep_last) ==
    /\ jsess[s].pc = "idle"
    /\ \E keep_ids \in most_recent_terminal(keep_last) :
          jsess' = [jsess EXCEPT ![s] =
                       JCleanup("completed_select", {}, keep_ids, keep_last)]
    /\ UNCHANGED <<now, lockState, procState, fileState, campState, ledgerState,
                   jobs, returned>>

\* cleanup_completed, the second SELECT: the terminal jobs not in keep_ids.
cleanup_completed_select(s) ==
    /\ jsess[s].pc = "completed_select"
    /\ LET to_delete == {j \in JobIds : /\ jobs[j].status \in Terminal
                                        /\ j \notin jsess[s].keep_ids}
       IN jsess' = [jsess EXCEPT ![s] =
             [@ EXCEPT !.pc = "completed_flush", !.selected = to_delete]]
    /\ UNCHANGED <<now, lockState, procState, fileState, campState, ledgerState,
                   jobs, returned>>

\* cleanup_completed, the flush: DELETE of each selected row by primary key.
cleanup_completed_flush(s) ==
    /\ jsess[s].pc = "completed_flush"
    /\ jobs' = [j \in 1..Len(jobs) |->
                  IF j \in jsess[s].selected
                  THEN [jobs[j] EXCEPT !.status = "DELETED"]
                  ELSE jobs[j]]
    /\ jsess' = [jsess EXCEPT ![s] = JSession("int", 0)]
    /\ UNCHANGED <<now, lockState, procState, fileState, campState, ledgerState,
                   returned>>

\* C28: the jobs a cleanup_stale changes were RUNNING and started more than
\* max_age before, and they become FAILED with an error and completed_at set;
\* no other job is changed.
C28_StaleRunningMarkedFailed ==
    [][\A s \in Sessions :
         cleanup_stale_flush(s)
         => \A j \in 1..Len(jobs) :
               IF jobs'[j] # jobs[j]
               THEN /\ jobs[j].status = "RUNNING"
                    /\ jobs[j].started_at < now - jsess[s].arg
                    /\ jobs'[j].status = "FAILED"
                    /\ jobs'[j].error # "none"
                    /\ jobs'[j].completed_at = now
               ELSE jobs[j].status = "RUNNING" => j \notin jsess[s].selected]_vars

\* C29: every job a cleanup_completed deletes is terminal, and at least
\* keep_last terminal jobs completed no earlier than it are left in the table.
C29_KeepsMostRecentTerminal ==
    [][\A s \in Sessions :
         cleanup_completed_flush(s)
         => \A j \in JobIds :
               jobs'[j].status = "DELETED"
               => /\ jobs[j].status \in Terminal
                  /\ Cardinality({k \in JobIds :
                         /\ jobs'[k].status \in Terminal
                         /\ jobs'[k].completed_at >= jobs[j].completed_at})
                        >= jsess[s].arg]_vars

\* C35: a dequeue that finds no PENDING job returns None, stages no write,
\* and leaves every job as it was.
C35_EmptyDequeueReturnsNone ==
    [][\A s \in Sessions :
         (dequeue_select(s) /\ \A j \in JobIds : jobs[j].status # "PENDING")
         => /\ jsess'[s].pc = "idle"
            /\ jsess'[s].result = "None"
            /\ jsess'[s].job = 0
            /\ jobs' = jobs
            /\ returned' = returned]_vars

\* C35 witness: a dequeue returned None while the table holds jobs, none of
\* them PENDING.
C35_Witness ==
    \E s \in Sessions :
        /\ jsess[s].pc = "idle"
        /\ jsess[s].result = "None"
        /\ JobIds # {}
        /\ \A j \in JobIds : jobs[j].status # "PENDING"

\* C36: no step changes the status of a job that is COMPLETED, FAILED or
\* CANCELLED.
C36_TerminalIsAbsorbing ==
    [][\A j \in JobIds :
         jobs[j].status \in Terminal => jobs'[j].status = jobs[j].status]_vars

\* C37: completed_at is set exactly on the terminal jobs, and started_at is
\* set on every job that is RUNNING, COMPLETED or FAILED.
C37_TimestampsMatchStatus ==
    \A j \in JobIds :
        /\ (jobs[j].completed_at # NoTime) <=> (jobs[j].status \in Terminal)
        /\ jobs[j].status \in {"RUNNING", "COMPLETED", "FAILED"}
              => jobs[j].started_at # NoTime

\* ------------------------------------------------------ the queue, for ever

\* enqueue on a table that has grown to MaxJobs rows: the table of the code is
\* unbounded, here the new row takes the place of a COMPLETED row that no
\* session holds, and COMPLETED rows play no part in dequeue.
enqueue_more(s) ==
    /\ jsess[s].pc = "idle"
    /\ Len(jobs) = MaxJobs
    /\ \E j \in JobIds :
          /\ jobs[j].status = "COMPLETED"
          /\ \A t \in Sessions : jsess[t].job # j
          /\ jobs' = [jobs EXCEPT ![j] = Job(now)]
          /\ returned' = [returned EXCEPT ![j] = 0]
    /\ jsess' = [jsess EXCEPT ![s] = JSession("Job", 0)]
    /\ UNCHANGED <<now, lockState, procState, fileState, campState, ledgerState>>

\* A worker finishes a job it is running.
worker_complete(s, j) ==
    /\ j \in JobIds
    /\ jobs[j].status = "RUNNING"
    /\ complete(s, j)

\* Producers enqueue for ever, workers dequeue and complete, nobody cancels.
JobForeverNext ==
    \/ Tick
    \/ \E s \in Sessions : enqueue(s)
    \/ \E s \in Sessions : enqueue_more(s)
    \/ \E s \in Sessions : dequeue_select(s)
    \/ \E s \in Sessions : dequeue_flush(s)
    \/ \E s \in Sessions, j \in 1..MaxJobs : worker_complete(s, j)

\* The clock advances, every worker calls dequeue again and again, and a
\* dequeue that has selected its job goes on to the flush.
JobForeverFairness ==
    /\ WF_vars(Tick)
    /\ \A s \in Sessions : SF_vars(dequeue_select(s))
    /\ \A s \in Sessions : WF_vars(dequeue_flush(s))

\* C40: a PENDING job is eventually dequeued (RUNNING), whatever is enqueued
\* after it.  Jobs enqueued at the last instant of the bounded clock are left
\* out: the clock cannot pass them.
C40_NoStarvation ==
    \A j \in 1..MaxJobs :
        (j \in JobIds /\ jobs[j].status = "PENDING" /\ jobs[j].created_at < MaxTime)
        ~> (j \in JobIds /\ jobs[j].status = "RUNNING")

\* C40 witness: a job was dequeued while a job enqueued after it is PENDING,
\* on a table where rows have been enqueued beyond MaxJobs.
C40_Witness ==
    \E j, k \in JobIds :
        /\ jobs[j].status = "RUNNING"
        /\ returned[j] = 1
        /\ jobs[k].status = "PENDING"
        /\ jobs[j].created_at < jobs[k].created_at
        /\ jobs[j].created_at > 0

JobStaleNext ==
    \/ Tick
    \/ \E s \in Sessions : enqueue(s)
    \/ \E s \in Sessions : dequeue_select(s)
    \/ \E s \in Sessions : dequeue_flush(s)
    \/ \E s \in Sessions, j \in 1..MaxJobs : complete(s, j)
    \/ \E s \in Sessions, max_age_hours \in 0..MaxAge :
          cleanup_stale_select(s, max_age_hours)
    \/ \E s \in Sessions : cleanup_stale_flush(s)

JobPurgeNext ==
    \/ Tick
    \/ \E s \in Sessions : enqueue(s)
    \/ \E s \in Sessions, j \in 1..MaxJobs : complete(s, j)
    \/ \E s \in Sessions, keep_last \in 0..MaxKeep : cleanup_completed_keep(s, keep_last)
    \/ \E s \in Sessions : cleanup_completed_select(s)
    \/ \E s \in Sessions : cleanup_completed_flush(s)

\* ============================================== campaigns and their ledger

CampaignStatus == {"CREATED", "ACTIVE", "PAUSED", "COMPLETED", "ARCHIVED"}

\* A variant of VALID_TRANSITIONS that lets an ARCHIVED campaign be reactivated.
VALID_TRANSITIONS_reopen(current) ==
    CASE current = "CREATED"   -> {"ACTIVE"}
      [] current = "ACTIVE"    -> {"PAUSED", "COMPLETED"}
      [] current = "PAUSED"    -> {"ACTIVE", "ARCHIVED"}
      [] current = "COMPLETED" -> {"ARCHIVED"}
      [] current = "ARCHIVED"  -> {"ACTIVE"}

\* VALID_TRANSITIONS[current]: the statuses update_status accepts as next.
VALID_TRANSITIONS(current) ==
    CASE current = "CREATED"   -> {"ACTIVE"}
      [] current = "ACTIVE"    -> {"PAUSED", "COMPLETED"}
      [] current = "PAUSED"    -> {"ACTIVE", "ARCHIVED"}
      [] current = "COMPLETED" -> {"ARCHIVED"}
      [] current = "ARCHIVED"  -> {}

CampaignIds == 1..Len(campaigns)
IterationIds == 1..Len(iterations)

\* The iteration lists a bundle may carry: validate_bundle does not look at them.
BundleIterations ==
    UNION {[1..n -> 0..MaxBundleLen] : n \in 0..MaxBundleLen}

Accepted == 0..MaxAccepted
Notes == {"None", "notes"}

\* A session that is inside no campaign call; `seen` is the current status an
\* InvalidStateTransitionError reports.
\* An ExportBundle with the lists the model follows, and the empty one.
ExportBundle(obs, iters) == [observations |-> obs, iterations |-> iters]

NoBundle == ExportBundle(<<>>, <<>>)

CSessionExc(result, current) ==
    [pc |-> "idle", campaign_id |-> 0, new_status |-> "none", seen |-> current,
     next_idx |-> 0, iteration_id |-> 0, accepted |-> 0, notes |-> "None",
     strategy |-> 0, strategy_names |-> <<>>, batch |-> <<>>, done |-> {},
     bundle |-> NoBundle, mask |-> <<>>, array |-> <<>>, ret |-> "none", result |-> result]

CSession(result) == CSessionExc(result, "none")

\* A session that has read what its call needs and has its write staged.
CStaged(pc, c, seen, new, idx, it, acc, notes, ret) ==
    [pc |-> pc, campaign_id |-> c, new_status |-> new, seen |-> seen,
     next_idx |-> idx, iteration_id |-> it, accepted |-> acc, notes |-> notes,
     strategy |-> 0, strategy_names |-> <<>>, batch |-> <<>>, done |-> {},
     bundle |-> NoBundle, mask |-> <<>>, array |-> <<>>, ret |-> ret, result |-> "none"]

\* POST /campaigns: INSERT of a campaign with the default status.
create_campaign(s) ==
    /\ csess[s].pc = "idle"
    /\ Len(campaigns) < MaxCampaigns
    /\ campaigns' = Append(campaigns, [status |-> "CREATED"])
    /\ csess' = [csess EXCEPT ![s] = CSession("Campaign")]
    /\ UNCHANGED <<now, lockState, jobState, procState, fileState, ledgerState, iterations, decisions>>

\* update_status, up to the flush: loads the campaign, raises
\* InvalidStateTransitionError when new_status is not a valid next status,
\* otherwise stages the UPDATE of the status column.
update_status_check(s, c, new_status) ==
    /\ csess[s].pc = "idle"
    /\ c \in CampaignIds
    /\ LET current == campaigns[c].status
       IN csess' = [csess EXCEPT ![s] =
             IF new_status \notin VALID_TRANSITIONS(current)
             THEN CSessionExc("InvalidStateTransitionError", current)
             ELSE CStaged("status_flush", c, current, new_status, 0, 0, 0, "None",
                          "Campaign")]
    /\ UNCHANGED <<now, lockState, jobState, procState, fileState, ledgerState, campaigns, iterations, decisions>>

\* update_status, the flush: UPDATE campaigns SET status = new_status WHERE id = c.
update_status_flush(s) ==
    /\ csess[s].pc = "status_flush"
    /\ campaigns' = [campaigns EXCEPT ![csess[s].campaign_id].status =
                        csess[s].new_status]
    /\ csess' = [csess EXCEPT ![s] = CSession(@.ret)]
    /\ UNCHANGED <<now, lockState, jobState, procState, fileState, ledgerState, iterations, decisions>>

\* CampaignEngine.pause and CampaignEngine.complete call update_status.
pause(s, c) == update_status_check(s, c, "PAUSED")

engine_complete(s, c) == update_status_check(s, c, "COMPLETED")

\* CampaignEngine.resume: raises ValueError unless the campaign is PAUSED,
\* then calls update_status on the campaign it has loaded.
resume(s, c) ==
    /\ csess[s].pc = "idle"
    /\ c \in CampaignIds
    /\ LET current == campaigns[c].status
       IN csess' = [csess EXCEPT ![s] =
             IF current # "PAUSED"
             THEN CSession("ValueError: Campaign is not paused")
             ELSE IF "ACTIVE" \notin VALID_TRANSITIONS(current)
             THEN CSessionExc("InvalidStateTransitionError", current)
             ELSE CStaged("status_flush", c, current, "ACTIVE", 0, 0, 0, "None",
                          "Campaign")]
    /\ UNCHANGED <<now, lockState, jobState, procState, fileState, ledgerState, campaigns, iterations, decisions>>

\* get_latest: the greatest index among the campaign's iterations, -1 for none.
get_latest(c) ==
    LET idx == {iterations[i].index : i \in {k \in IterationIds :
                                                iterations[k].campaign_id = c}}
    IN IF idx = {} THEN -1 ELSE CHOOSE m \in idx : \A n \in idx : n <= m

\* Sessions that have an iteration INSERT staged.
inserting == {t \in Sessions : csess[t].pc = "iteration_insert"}

\* The strategy names a call runs: `strategy_names or list(self._executors.keys())`,
\* so None and the empty list both stand for every executor.
names_or_all(strategy_names) ==
    IF strategy_names = <<>> THEN [i \in 1..NumStrategies |-> i] ELSE strategy_names

\* The proposals the engine call of a session has still to add, at most.
to_propose(t) ==
    IF csess[t].pc \notin {"iteration_insert", "iteration_status", "propose"}
    THEN 0
    ELSE IF csess[t].ret = "run_initial_design" THEN 1
    ELSE IF csess[t].ret = "run_optimization_iteration"
    THEN LET n == Len(names_or_all(csess[t].strategy_names))
         IN IF csess[t].pc = "propose" THEN n + 1 - csess[t].strategy ELSE n
    ELSE 0

RECURSIVE reserved(_)
reserved(S) ==
    IF S = {} THEN 0
    ELSE LET t == CHOOSE x \in S : TRUE IN to_propose(t) + reserved(S \ {t})

\* start_iteration, the SELECT of the current iteration and the choice of
\* next_idx: 0 on an empty campaign, current.index + 1 otherwise.  `ret` is
\* what the caller does with the iteration: "Iteration" returns it;
\* strategy_names is the list an engine call goes through afterwards.
start_iteration_from(s, c, ret, strategy_names) ==
    /\ csess[s].pc = "idle"
    /\ c \in CampaignIds
    /\ Len(iterations) + Cardinality(inserting) < MaxIterations
    /\ LET current == get_latest(c)
           next_idx == IF current = -1 THEN 0 ELSE current + 1
       IN csess' = [csess EXCEPT ![s] =
             [CStaged("iteration_insert", c, "none", "none", next_idx, 0, 0, "None",
                      ret) EXCEPT !.strategy_names = strategy_names]]
    /\ UNCHANGED <<now, lockState, jobState, procState, fileState, ledgerState, campaigns, iterations, decisions>>

start_iteration_select(s, c) == start_iteration_from(s, c, "Iteration", <<>>)


\* start_iteration, the INSERT and the commit.
start_iteration_commit(s) ==
    /\ csess[s].pc = "iteration_insert"
    /\ iterations' = Append(iterations, [campaign_id |-> csess[s].campaign_id,
                                         index |-> csess[s].next_idx])
    /\ csess' = [csess EXCEPT ![s] =
          [@ EXCEPT !.pc = "iteration_status", !.iteration_id = Len(iterations) + 1]]
    /\ UNCHANGED <<now, lockState, jobState, procState, fileState, ledgerState, campaigns, decisions>>

\* A session of an engine call that has its iteration and goes on to add
\* proposals; new is the status update it has flushed and not yet committed.
Proposing(c, it, new, ret, strategy_names) ==
    [CStaged("propose", c, "none", new, 0, it, 0, "None", ret)
        EXCEPT !.strategy = 1, !.strategy_names = strategy_names]

\* start_iteration, after the commit: reloads the campaign and, when it is
\* still CREATED, calls update_status(ACTIVE) on the row just loaded.  Called
\* by the engine, the update stays uncommitted until add_proposal commits.
start_iteration_status(s) ==
    /\ csess[s].pc = "iteration_status"
    /\ LET c == csess[s].campaign_id
           current == campaigns[c].status
       IN csess' = [csess EXCEPT ![s] =
             IF current # "CREATED"
             THEN IF @.ret = "Iteration" THEN CSession("Iteration")
                  ELSE Proposing(c, @.iteration_id, "none", @.ret, @.strategy_names)
             ELSE IF "ACTIVE" \notin VALID_TRANSITIONS(current)
             THEN CSessionExc("InvalidStateTransitionError", current)
             ELSE IF @.ret = "Iteration"
             THEN CStaged("status_flush", c, current, "ACTIVE", 0, 0, 0, "None",
                          "Iteration")
             ELSE Proposing(c, @.iteration_id, "ACTIVE", @.ret, @.strategy_names)]
    /\ UNCHANGED <<now, lockState, jobState, procState, fileState, ledgerState, campaigns, iterations, decisions>>

\* The decisions that reference an iteration.
get_by_iteration(it) == {d \in 1..Len(decisions) : decisions[d].iteration_id = it}

\* A variant of unique_iteration_id for a table without the unique index.
unique_iteration_id_absent(it) == TRUE

\* The unique index on decisions.iteration_id rejects a second row.
unique_iteration_id(it) == get_by_iteration(it) = {}

\* A variant of record_decision_check that does not look for a decision.
record_decision_check_blind(s, it, accepted, notes) ==
    /\ csess[s].pc = "idle"
    /\ it \in IterationIds
    /\ csess' = [csess EXCEPT ![s] =
          CStaged("decision_insert", iterations[it].campaign_id, "none", "none",
                  0, it, accepted, notes, "Decision")]
    /\ UNCHANGED <<now, lockState, jobState, procState, fileState, ledgerState, campaigns, iterations, decisions>>

\* record_decision, up to the INSERT: raises ValueError("Decision already
\* exists ...") when the iteration has a decision.
record_decision_check(s, it, accepted, notes) ==
    /\ csess[s].pc = "idle"
    /\ it \in IterationIds
    /\ csess' = [csess EXCEPT ![s] =
          IF get_by_iteration(it) # {}
          THEN CSession("ValueError: Decision already exists")
          ELSE CStaged("decision_insert", iterations[it].campaign_id, "none", "none",
                       0, it, accepted, notes, "Decision")]
    /\ UNCHANGED <<now, lockState, jobState, procState, fileState, ledgerState, campaigns, iterations, decisions>>

\* record_decision, the INSERT and the commit.
record_decision_commit(s) ==
    /\ csess[s].pc = "decision_insert"
    /\ IF unique_iteration_id(csess[s].iteration_id)
       THEN /\ decisions' = Append(decisions,
                                   [iteration_id |-> csess[s].iteration_id,
                                    accepted |-> csess[s].accepted,
                                    notes |-> csess[s].notes])
            /\ csess' = [csess EXCEPT ![s] = CSession("Decision")]
       ELSE /\ decisions' = decisions
            /\ csess' = [csess EXCEPT ![s] = CSession("IntegrityError")]
    /\ UNCHANGED <<now, lockState, jobState, procState, fileState, ledgerState, campaigns, iterations>>

\* import_from_dict: INSERT of an ACTIVE campaign with a new id, of one
\* observation per entry of bundle.observations (x_raw from "inputs", y from
\* "outputs") and of one iteration per entry of bundle.iterations, each with
\* the index the entry carries.
import_from_dict(s, bundle) ==
    /\ csess[s].pc = "idle"
    /\ Len(iterations) + Cardinality(inserting) + Len(bundle.iterations) <= MaxIterations
    /\ campaigns' = Append(campaigns, [status |-> "ACTIVE"])
    /\ observations' = observations \o
          [i \in 1..Len(bundle.observations) |->
              [campaign_id |-> Len(campaigns) + 1,
               x_raw |-> bundle.observations[i].inputs,
               y |-> bundle.observations[i].outputs]]
    /\ iterations' = iterations \o
          [i \in 1..Len(bundle.iterations) |->
              [campaign_id |-> Len(campaigns) + 1, index |-> bundle.iterations[i].index]]
    /\ csess' = [csess EXCEPT ![s] = CSession("UUID")]
    /\ UNCHANGED <<now, lockState, jobState, procState, fileState, proposals, decisions>>

\* POST /campaigns/import with the iterations list a caller wrote.
import_campaign(s, indices) ==
    /\ Len(campaigns) < MaxCampaigns
    /\ import_from_dict(s, ExportBundle(<<>>, [i \in 1..Len(indices) |->
                                                  [index |-> indices[i]]]))

\* ------------------------------------------------- campaign ledger claims

\* The campaign state graph: the status changes the specification allows.
StatusGraph ==
    {<<"CREATED", "ACTIVE">>, <<"ACTIVE", "PAUSED">>, <<"PAUSED", "ACTIVE">>,
     <<"ACTIVE", "COMPLETED">>, <<"COMPLETED", "ARCHIVED">>,
     <<"PAUSED", "ARCHIVED">>}

\* C1: every change of a campaign's status, whatever step makes it, is an
\* edge of the state graph; in particular no step leaves ARCHIVED.
C1_StatusFollowsGraph ==
    [][\A c \in CampaignIds :
         campaigns'[c].status # campaigns[c].status
         => <<campaigns[c].status, campaigns'[c].status>> \in StatusGraph]_vars

\* C2: update_status asked for a pair (current, new) that is not an edge of
\* the state graph raises InvalidStateTransitionError, stages no write and
\* leaves every campaign's status as it was.
C2_InvalidTransitionRejected ==
    [][\A s \in Sessions, c \in 1..MaxCampaigns, new \in CampaignStatus :
         (update_status_check(s, c, new)
          /\ <<campaigns[c].status, new>> \notin StatusGraph)
         => /\ csess'[s].pc = "idle"
            /\ csess'[s].result = "InvalidStateTransitionError"
            /\ csess'[s].seen = campaigns[c].status
            /\ campaigns' = campaigns]_vars

\* C2 witness: a request on an ARCHIVED campaign was refused and the campaign
\* is still ARCHIVED.
C2_Witness ==
    \E s \in Sessions, c \in CampaignIds :
        /\ csess[s].result = "InvalidStateTransitionError"
        /\ csess[s].seen = "ARCHIVED"
        /\ campaigns[c].status = "ARCHIVED"

\* C5: a step that writes a campaign's status, an iteration or a decision is
\* taken only while an unexpired lock row of that campaign is in the table.
C5_MutationUnderLock ==
    [][\A s \in Sessions :
         (update_status_flush(s) \/ start_iteration_commit(s)
          \/ record_decision_commit(s))
         => \E l \in campaign_locks : /\ l.campaign_id = csess[s].campaign_id
                                      /\ l.expires_at > now]_vars

\* C6: start_iteration never inserts an iteration whose index another
\* iteration of the same campaign already has.
C6_NoDuplicateIndex ==
    [][\A s \in Sessions :
         start_iteration_commit(s)
         => \A i \in IterationIds :
               ~(/\ iterations[i].campaign_id = csess[s].campaign_id
                 /\ iterations[i].index = csess[s].next_idx)]_vars

\* C7: the iteration indices of a campaign with N iterations are 0..N-1,
\* each carried by exactly one iteration.
C7_IndicesContiguous ==
    \A c \in CampaignIds :
        LET rows == {i \in IterationIds : iterations[i].campaign_id = c}
        IN \A k \in 0..(Cardinality(rows) - 1) :
              Cardinality({i \in rows : iterations[i].index = k}) = 1

\* C8: no iteration is referenced by more than one decision.
C8_AtMostOneDecision ==
    \A it \in IterationIds :
        Cardinality({d \in 1..Len(decisions) : decisions[d].iteration_id = it}) <= 1

\* C8 witness: two record_decision calls for one iteration ran concurrently;
\* one inserted its decision and the other was rejected at its INSERT.
C8_Witness ==
    \E s \in Sessions :
        /\ csess[s].result = "IntegrityError"
        /\ \E t \in Sessions : t # s /\ csess[t].result = "Decision"
        /\ decisions # <<>>

\* C9: record_decision on an iteration that has a decision raises
\* ValueError("Decision already exists ..."), stages no write, and no step
\* changes or removes a decision that is in the table.
C9_SecondDecisionRejected ==
    [][/\ \A s \in Sessions, it \in 1..MaxIterations, a \in Accepted, n \in Notes :
            (record_decision_check(s, it, a, n)
             /\ \E d \in 1..Len(decisions) : decisions[d].iteration_id = it)
            => /\ csess'[s].pc = "idle"
               /\ csess'[s].result = "ValueError: Decision already exists"
               /\ decisions' = decisions
       /\ Len(decisions') >= Len(decisions)
       /\ \A d \in 1..Len(decisions) : decisions'[d] = decisions[d]]_vars

\* C9 witness: a second record_decision was refused and the decision of the
\* first is in the table.
C9_Witness ==
    \E s \in Sessions :
        /\ csess[s].result = "ValueError: Decision already exists"
        /\ decisions # <<>>

CampaignNext ==
    \/ \E s \in Sessions : create_campaign(s)
    \/ \E s \in Sessions, c \in 1..MaxCampaigns, new \in CampaignStatus :
          update_status_check(s, c, new)
    \/ \E s \in Sessions : update_status_flush(s)
    \/ \E s \in Sessions, c \in 1..MaxCampaigns : pause(s, c)
    \/ \E s \in Sessions, c \in 1..MaxCampaigns : resume(s, c)
    \/ \E s \in Sessions, c \in 1..MaxCampaigns : engine_complete(s, c)
    \/ \E s \in Sessions, c \in 1..MaxCampaigns : start_iteration_select(s, c)
    \/ \E s \in Sessions : start_iteration_commit(s)
    \/ \E s \in Sessions : start_iteration_status(s)
    \/ \E s \in Sessions, it \in 1..MaxIterations, a \in Accepted, n \in Notes :
          record_decision_check(s, it, a, n)
    \/ \E s \in Sessions : record_decision_commit(s)
    \/ \E s \in Sessions, b \in BundleIterations : import_campaign(s, b)

\* ============================================================ the engine

Strategies == 1..NumStrategies

\* The observations of a campaign.
get_observations(c) == {o \in 1..Len(observations) : observations[o].campaign_id = c}

\* add_observation: INSERT of an observation of the campaign, and the commit.
add_observation(s, c) ==
    /\ csess[s].pc = "idle"
    /\ c \in CampaignIds
    /\ Len(observations) < MaxObservations
    /\ observations' = Append(observations, [campaign_id |-> c])
    /\ csess' = [csess EXCEPT ![s] = CSession("Observation")]
    /\ UNCHANGED <<now, lockState, jobState, procState, fileState, campaigns, iterations, decisions,
                   proposals>>

\* run_initial_design: the executor draws the samples, or raises before
\* anything is written; then start_iteration, then one add_proposal.
run_initial_design(s, c) ==
    /\ Len(proposals) + reserved(Sessions) + 1 <= MaxProposals
    /\ \/ start_iteration_from(s, c, "run_initial_design", <<>>)
       \/ /\ csess[s].pc = "idle"
          /\ c \in CampaignIds
          /\ csess' = [csess EXCEPT ![s] = CSession("Exception")]
          /\ UNCHANGED <<now, lockState, jobState, procState, fileState, ledgerState, campaigns,
                         iterations, decisions>>

\* A variant of run_optimization_iteration that starts the iteration without
\* looking at the training data.
run_optimization_iteration_untrained(s, c, strategy_names) ==
    /\ Len(proposals) + reserved(Sessions) + Len(names_or_all(strategy_names))
          <= MaxProposals
    /\ c \in CampaignIds
    /\ start_iteration_from(s, c, "run_optimization_iteration", strategy_names)

\* run_optimization_iteration: raises ValueError without training data,
\* otherwise start_iteration, then one strategy name after the other.
run_optimization_iteration(s, c, strategy_names) ==
    /\ Len(proposals) + reserved(Sessions) + Len(names_or_all(strategy_names))
          <= MaxProposals
    /\ c \in CampaignIds
    /\ IF get_observations(c) = {}
       THEN /\ csess[s].pc = "idle"
            /\ csess' = [csess EXCEPT ![s] = CSession("ValueError: No training data")]
            /\ UNCHANGED <<now, lockState, jobState, procState, fileState, ledgerState, campaigns,
                           iterations, decisions>>
       ELSE start_iteration_from(s, c, "run_optimization_iteration", strategy_names)

\* The strategy name the loop of an engine call is at: run_initial_design
\* takes the first executor, run_optimization_iteration goes through its list.
strategy_at(s) ==
    IF csess[s].ret = "run_initial_design" THEN 1
    ELSE names_or_all(csess[s].strategy_names)[csess[s].strategy]

\* The name at hand is the last one of the call.
last_strategy(s) ==
    \/ csess[s].ret = "run_initial_design"
    \/ csess[s].strategy = Len(names_or_all(csess[s].strategy_names))

\* The result map of run_optimization_iteration so far: the names before the
\* one at hand that have an executor (a strategy that raises ends the call).
results(s) ==
    LET names == names_or_all(csess[s].strategy_names)
    IN {names[i] : i \in {k \in 1..(csess[s].strategy - 1) : names[k] \in Strategies}}

\* The name at hand has no executor: a warning, and the loop goes on.  After
\* the last name the call returns its result map and the route commits what
\* the session has flushed.
unknown_strategy(s) ==
    /\ csess[s].pc = "propose"
    /\ strategy_at(s) \notin Strategies
    /\ campaigns' = IF last_strategy(s) /\ csess[s].new_status # "none"
                    THEN [campaigns EXCEPT ![csess[s].campaign_id].status =
                             csess[s].new_status]
                    ELSE campaigns
    /\ csess' = [csess EXCEPT ![s] =
          IF last_strategy(s) THEN CSession("ExecutionResult")
          ELSE [@ EXCEPT !.strategy = @ + 1]]
    /\ UNCHANGED <<now, lockState, jobState, procState, fileState, iterations, decisions,
                   observations, proposals>>

\* The strategy at hand ran and add_proposal inserted and committed its
\* proposal; the commit also commits the status update start_iteration
\* flushed.  run_initial_design is then done, run_optimization_iteration
\* goes on to the next strategy.
add_proposal(s) ==
    /\ csess[s].pc = "propose"
    /\ strategy_at(s) \in Strategies
    /\ proposals' = Append(proposals, [iteration_id |-> csess[s].iteration_id,
                                       strategy_name |-> strategy_at(s)])
    /\ campaigns' = IF csess[s].new_status = "none" THEN campaigns
                    ELSE [campaigns EXCEPT ![csess[s].campaign_id].status =
                             csess[s].new_status]
    /\ csess' = [csess EXCEPT ![s] =
          IF last_strategy(s) THEN CSession("ExecutionResult")
          ELSE [@ EXCEPT !.strategy = @ + 1, !.new_status = "none"]]
    /\ UNCHANGED <<now, lockState, jobState, procState, fileState, iterations, decisions, observations>>

\* The strategy at hand, or add_proposal, raises: the call re-raises and the
\* session is rolled back to its last commit.
proposal_raises(s) ==
    /\ csess[s].pc = "propose"
    /\ strategy_at(s) \in Strategies
    /\ csess' = [csess EXCEPT ![s] = CSession("Exception")]
    /\ UNCHANGED <<now, lockState, jobState, procState, fileState, ledgerState, campaigns, iterations,
                   decisions>>

\* ---------------------------------------------------------- engine claims

\* C14: when an engine call fails part-way, the iteration it created is not
\* in the table afterwards.
C14_FailedCallLeavesNothing ==
    [][\A s \in Sessions :
         proposal_raises(s) => csess[s].iteration_id \notin 1..Len(iterations')]_vars

\* C19: an observation or a proposal is added to a campaign only while the
\* campaign is CREATED or ACTIVE.
C19_WritesOnlyWhenOpen ==
    [][/\ \A s \in Sessions, c \in 1..MaxCampaigns :
            add_observation(s, c) => campaigns[c].status \in {"CREATED", "ACTIVE"}
       /\ \A s \in Sessions :
            add_proposal(s) => campaigns[csess[s].campaign_id].status
                                  \in {"CREATED", "ACTIVE"}]_vars

\* C20: an add_observation on a CREATED campaign leaves the campaign ACTIVE,
\* and so does the last step of a start_iteration that found it CREATED.
C20_FirstWritePromotes ==
    [][/\ \A s \in Sessions, c \in 1..MaxCampaigns :
            (add_observation(s, c) /\ campaigns[c].status = "CREATED")
            => campaigns'[c].status = "ACTIVE"
       /\ \A s \in Sessions :
            (update_status_flush(s) /\ csess[s].ret = "Iteration")
            => campaigns'[csess[s].campaign_id].status = "ACTIVE"]_vars

\* C27: run_optimization_iteration on a campaign without observations raises
\* ValueError("No training data ..."), stages no write, and leaves the
\* iterations, the proposals and every campaign's status as they were.
C27_NoTrainingDataRejected ==
    [][\A s \in Sessions, c \in 1..MaxCampaigns :
         (run_optimization_iteration(s, c, <<>>) /\ get_observations(c) = {})
         => /\ csess'[s].pc = "idle"
            /\ csess'[s].result = "ValueError: No training data"
            /\ iterations' = iterations
            /\ proposals' = proposals
            /\ campaigns' = campaigns]_vars

\* C27 witness: a propose request was refused for lack of training data on a
\* campaign that has no observation, no iteration and is still CREATED.
C27_Witness ==
    \E s \in Sessions, c \in CampaignIds :
        /\ csess[s].result = "ValueError: No training data"
        /\ get_observations(c) = {}
        /\ \A i \in IterationIds : iterations[i].campaign_id # c
        /\ proposals = <<>>
        /\ campaigns[c].status = "CREATED"

\* The strategy names a request may carry: the names of the executors and one
\* name that has no executor.
StrategyNames == 1..(NumStrategies + 1)

StrategyNameLists ==
    UNION {[1..n -> StrategyNames] : n \in 0..MaxStrategyNames}

\* C38: when run_optimization_iteration returns its result map, the map is
\* not empty and the iteration the call created has a proposal.
C38_ReturnedIterationHasProposal ==
    [][\A s \in Sessions :
         (/\ csess[s].pc = "propose"
          /\ csess[s].ret = "run_optimization_iteration"
          /\ csess'[s].result = "ExecutionResult")
         => /\ results(s) \cup ({strategy_at(s)} \cap Strategies) # {}
            /\ \E p \in 1..Len(proposals') :
                  proposals'[p].iteration_id = csess[s].iteration_id]_vars

StrategyNext ==
    \/ \E s \in Sessions : create_campaign(s)
    \/ \E s \in Sessions, c \in 1..MaxCampaigns : add_observation(s, c)
    \/ \E s \in Sessions, c \in 1..MaxCampaigns, strategy_names \in StrategyNameLists :
          run_optimization_iteration(s, c, strategy_names)
    \/ \E s \in Sessions : start_iteration_commit(s)
    \/ \E s \in Sessions : start_iteration_status(s)
    \/ \E s \in Sessions : add_proposal(s)
    \/ \E s \in Sessions : unknown_strategy(s)
    \/ \E s \in Sessions : proposal_raises(s)

EngineNext ==
    \/ \E s \in Sessions : create_campaign(s)
    \/ \E s \in Sessions, c \in 1..MaxCampaigns, new \in CampaignStatus :
          update_status_check(s, c, new)
    \/ \E s \in Sessions : update_status_flush(s)
    \/ \E s \in Sessions, c \in 1..MaxCampaigns : start_iteration_select(s, c)
    \/ \E s \in Sessions : start_iteration_commit(s)
    \/ \E s \in Sessions : start_iteration_status(s)
    \/ \E s \in Sessions, c \in 1..MaxCampaigns : add_observation(s, c)
    \/ \E s \in Sessions, c \in 1..MaxCampaigns : run_initial_design(s, c)
    \/ \E s \in Sessions, c \in 1..MaxCampaigns : run_optimization_iteration(s, c, <<>>)
    \/ \E s \in Sessions : add_proposal(s)
    \/ \E s \in Sessions : proposal_raises(s)

\* ============================================== the content of observations

\* The process of the campaign: input x1, input x2 with active_if {x1: [1]},
\* and one objective.
InputNames == {"x1", "x2"}
ObjectiveNames == {"y"}

\* _check_activity on one point: x2 is active when x1 is one of [1].
is_active(name, x_raw) ==
    IF name = "x2" THEN "x1" \in DOMAIN x_raw /\ x_raw["x1"] \in {1} ELSE TRUE

\* The x_raw and y a caller may send: complete ones, an x_raw without its
\* inactive x2, an x_raw without its active x2, a y without the objective.
XRaws == {[x1 |-> 1, x2 |-> 1], [x1 |-> 0, x2 |-> 0], [x1 |-> 0], [x1 |-> 1]}
Ys == {[y |-> 1], [other |-> 1]}

ObservationData == [x_raw : XRaws, y : Ys]

Batches == UNION {[1..n -> ObservationData] : n \in 1..MaxBatch}

\* encode_single raises KeyError when x_raw lacks the column of an input:
\* encode reads df[name] of every input, active or not.
encode_single_raises(x_raw) == \E name \in InputNames : name \notin DOMAIN x_raw

\* The row ProposalLedger.add_observation inserts.
Observation(c, x_raw, y) == [campaign_id |-> c, x_raw |-> x_raw, y |-> y]

\* The observations calls in progress have still to insert.
RECURSIVE to_observe(_)
to_observe(S) ==
    IF S = {} THEN 0
    ELSE LET t == CHOOSE x \in S : TRUE
         IN Len(csess[t].batch) + to_observe(S \ {t})

\* CampaignEngine.add_observation: encodes x_raw, then the ledger inserts the
\* observation and commits; y is stored as it came.
engine_add_observation(s, c, x_raw, y) ==
    /\ csess[s].pc = "idle"
    /\ c \in CampaignIds
    /\ Len(observations) + to_observe(Sessions) < MaxObservations
    /\ IF encode_single_raises(x_raw)
       THEN /\ observations' = observations
            /\ csess' = [csess EXCEPT ![s] = CSession("KeyError")]
       ELSE /\ observations' = Append(observations, Observation(c, x_raw, y))
            /\ csess' = [csess EXCEPT ![s] = CSession("Observation")]
    /\ UNCHANGED <<now, lockState, jobState, procState, fileState, campaigns,
                   iterations, decisions, proposals>>

\* add_observations_batch, the call: the loop over the list starts.
add_observations_batch(s, c, batch) ==
    /\ csess[s].pc = "idle"
    /\ c \in CampaignIds
    /\ Len(observations) + to_observe(Sessions) + Len(batch) <= MaxObservations
    /\ csess' = [csess EXCEPT ![s] =
          [CStaged("batch", c, "none", "none", 0, 0, 0, "None", "Observations")
             EXCEPT !.batch = batch]]
    /\ UNCHANGED <<now, lockState, jobState, procState, fileState, ledgerState,
                   campaigns, iterations, decisions>>

\* add_observations_batch, one turn of the loop: add_observation of the next
\* element, which commits it, or raises and ends the call.
add_observations_batch_next(s) ==
    /\ csess[s].pc = "batch"
    /\ LET obs == Head(csess[s].batch)
       IN IF encode_single_raises(obs.x_raw)
          THEN /\ observations' = observations
               /\ csess' = [csess EXCEPT ![s] =
                     [CSession("KeyError") EXCEPT !.done = csess[s].done]]
          ELSE /\ observations' = Append(observations,
                      Observation(csess[s].campaign_id, obs.x_raw, obs.y))
               /\ csess' = [csess EXCEPT ![s] =
                     IF Len(@.batch) = 1
                     THEN [CSession("Observations") EXCEPT
                              !.done = csess[s].done \cup {Len(observations) + 1}]
                     ELSE [@ EXCEPT !.batch = Tail(@),
                                    !.done = @ \cup {Len(observations) + 1}]]
    /\ UNCHANGED <<now, lockState, jobState, procState, fileState, campaigns,
                   iterations, decisions, proposals>>

\* ----------------------------------------------------- observation claims

\* C21: when an element of a batch fails, no observation the call added for
\* an earlier element of that batch is in the table.
C21_BatchAllOrNothing ==
    [][\A s \in Sessions :
         (add_observations_batch_next(s) /\ csess'[s].result = "KeyError")
         => \A o \in csess[s].done : o \notin 1..Len(observations')]_vars

\* C22: the x_raw of every observation in the table has a value for every
\* input that is active under it, and its y has a value for every objective.
C22_ObservationsCoverSpec ==
    \A o \in 1..Len(observations) :
        /\ \A name \in InputNames :
              is_active(name, observations[o].x_raw)
              => name \in DOMAIN observations[o].x_raw
        /\ ObjectiveNames \subseteq DOMAIN observations[o].y

ObservationNext ==
    \/ \E s \in Sessions : create_campaign(s)
    \/ \E s \in Sessions, c \in 1..MaxCampaigns, x_raw \in XRaws, y \in Ys :
          engine_add_observation(s, c, x_raw, y)
    \/ \E s \in Sessions, c \in 1..MaxCampaigns, batch \in Batches :
          add_observations_batch(s, c, batch)
    \/ \E s \in Sessions : add_observations_batch_next(s)

\* ======================================================= export and import

\* The rows of a table that belong to campaign c, in the order of the table
\* (the order of observed_at, and of the iteration index).
RECURSIVE list(_, _)
list(table, c) ==
    IF table = <<>> THEN <<>>
    ELSE IF table[1].campaign_id = c THEN <<table[1]>> \o list(Tail(table), c)
    ELSE list(Tail(table), c)

\* CampaignExporter.export: the campaign's observations as "inputs" and
\* "outputs", its iterations as "index" and "acquisition_config".  Iteration
\* has no acquisition_config attribute, so building the entry of the first
\* iteration raises AttributeError.
export(s, c) ==
    /\ csess[s].pc = "idle"
    /\ c \in CampaignIds
    /\ LET obs == list(observations, c)
           iters == list(iterations, c)
       IN csess' = [csess EXCEPT ![s] =
             IF iters # <<>> THEN CSession("AttributeError")
             ELSE [CSession("Bundle") EXCEPT !.bundle =
                      ExportBundle([i \in 1..Len(obs) |->
                                       [inputs |-> obs[i].x_raw, outputs |-> obs[i].y]],
                                   [i \in 1..Len(iters) |-> [index |-> iters[i].index]])]]
    /\ UNCHANGED <<now, lockState, jobState, procState, fileState, ledgerState, campaigns,
                   iterations, decisions>>

\* The bundle a session has exported is imported; the store it is imported
\* into has room for MaxImports campaigns more.
import_exported(s) ==
    /\ csess[s].result = "Bundle"
    /\ Len(campaigns) < MaxCampaigns + MaxImports
    /\ import_from_dict(s, csess[s].bundle)

\* What export and import are to carry over: x_raw and y of the observations,
\* and the iteration indices.
content(c, obs, iters) ==
    [observations |-> [i \in 1..Len(list(obs, c)) |->
                          [x_raw |-> list(obs, c)[i].x_raw, y |-> list(obs, c)[i].y]],
     indices |-> [i \in 1..Len(list(iters, c)) |-> list(iters, c)[i].index]]

\* C31: export of a campaign gives a bundle, and the import of that bundle
\* creates a campaign with a new id, status ACTIVE, the observations and the
\* iteration indices the campaign had when it was exported.
C31_ExportImportRoundTrip ==
    [][\A s \in Sessions :
         /\ \A c \in CampaignIds :
               export(s, c)
               => /\ csess'[s].result = "Bundle"
                  /\ csess'[s].bundle.observations =
                        [i \in 1..Len(list(observations, c)) |->
                            [inputs |-> list(observations, c)[i].x_raw,
                             outputs |-> list(observations, c)[i].y]]
                  /\ csess'[s].bundle.iterations =
                        [i \in 1..Len(list(iterations, c)) |->
                            [index |-> list(iterations, c)[i].index]]
         /\ import_exported(s)
            => LET new == Len(campaigns) + 1
                   b == csess[s].bundle
               IN /\ new \notin CampaignIds
                  /\ Len(campaigns') = new
                  /\ campaigns'[new].status = "ACTIVE"
                  /\ content(new, observations', iterations').observations =
                        [i \in 1..Len(b.observations) |->
                            [x_raw |-> b.observations[i].inputs,
                             y |-> b.observations[i].outputs]]
                  /\ content(new, observations', iterations').indices =
                        [i \in 1..Len(b.iterations) |-> b.iterations[i].index]]_vars

ExportNext ==
    \/ \E s \in Sessions : create_campaign(s)
    \/ \E s \in Sessions, c \in 1..MaxCampaigns, x_raw \in XRaws, y \in Ys :
          engine_add_observation(s, c, x_raw, y)
    \/ \E s \in Sessions, c \in 1..MaxCampaigns : start_iteration_select(s, c)
    \/ \E s \in Sessions : start_iteration_commit(s)
    \/ \E s \in Sessions : start_iteration_status(s)
    \/ \E s \in Sessions : update_status_flush(s)
    \/ \E s \in Sessions, c \in 1..MaxCampaigns : export(s, c)
    \/ \E s \in Sessions : import_exported(s)

\* ================================================ the content of decisions

\* The candidate lists a strategy may hand to add_proposal.
CandidateLists ==
    UNION {[1..n -> {[x1 |-> 1, x2 |-> 1]}] : n \in 0..MaxCandidates}

\* The lists of indices and the accepted lists a caller may send: the route
\* takes any proposal id and any list of integers.
CandidateIndices == [1..1 -> 0..(MaxCandidates - 1)]

AcceptedLists ==
    UNION {[1..n -> [proposal_id : 1..MaxProposals,
                     candidate_indices : CandidateIndices]] : n \in 0..1}

\* ProposalLedger.add_proposal: INSERT of a proposal of the iteration with
\* its raw candidates, and the commit.
ledger_add_proposal(s, it, strategy_name, candidates_raw) ==
    /\ csess[s].pc = "idle"
    /\ it \in IterationIds
    /\ Len(proposals) < MaxProposals
    /\ proposals' = Append(proposals, [iteration_id |-> it,
                                       strategy_name |-> strategy_name,
                                       candidates_raw |-> candidates_raw])
    /\ csess' = [csess EXCEPT ![s] = CSession("Proposal")]
    /\ UNCHANGED <<now, lockState, jobState, procState, fileState, campaigns,
                   iterations, decisions, observations>>

\* str(sorted(x_raw.items())): the items of x_raw, whatever their order.
canonical(x_raw) == {<<k, x_raw[k]>> : k \in DOMAIN x_raw}

\* The proposals of an iteration.
get_proposals(it) == {p \in 1..Len(proposals) : proposals[p].iteration_id = it}

\* get_pending_candidates: for every iteration of the campaign that has a
\* decision, the candidates its accepted entries name among the proposals of
\* that iteration, at an index below the length of the raw list, whose
\* canonical x_raw is that of no observation.
get_pending_candidates(c) ==
    LET observed_x == {canonical(observations[o].x_raw) : o \in get_observations(c)}
        its == {i \in IterationIds : iterations[i].campaign_id = c}
        entries(d) == {decisions[d].accepted[i] : i \in 1..Len(decisions[d].accepted)}
        indices(a) == {a.candidate_indices[i] : i \in 1..Len(a.candidate_indices)}
        pending(it, a) ==
            IF a.proposal_id \notin get_proposals(it) THEN {}
            ELSE LET proposal == proposals[a.proposal_id]
                 IN {[x_raw |-> proposal.candidates_raw[idx + 1],
                      iteration_idx |-> iterations[it].index,
                      strategy_name |-> proposal.strategy_name] :
                        idx \in {k \in indices(a) :
                                   /\ k < Len(proposal.candidates_raw)
                                   /\ canonical(proposal.candidates_raw[k + 1])
                                         \notin observed_x}}
    IN UNION {UNION {UNION {pending(it, a) : a \in entries(d)} :
                        d \in get_by_iteration(it)} : it \in its}

\* ------------------------------------------------------- decision claims

\* C23: every candidate index of a decision that is inserted is an index of
\* the raw candidate list of the proposal its entry names.
C23_AcceptedIndicesInRange ==
    [][\A s \in Sessions :
         (record_decision_commit(s) /\ decisions' # decisions)
         => \A i \in 1..Len(csess[s].accepted) :
               LET a == csess[s].accepted[i]
               IN a.proposal_id \in 1..Len(proposals)
                  => \A k \in 1..Len(a.candidate_indices) :
                        a.candidate_indices[k] \in
                           0..(Len(proposals[a.proposal_id].candidates_raw) - 1)]_vars

\* C24: every proposal_id of a decision that is inserted names a proposal
\* that is in the table and belongs to the iteration of the decision.
C24_DecisionAfterItsProposals ==
    [][\A s \in Sessions :
         (record_decision_commit(s) /\ decisions' # decisions)
         => \A i \in 1..Len(csess[s].accepted) :
               LET a == csess[s].accepted[i]
               IN /\ a.proposal_id \in 1..Len(proposals)
                  /\ proposals[a.proposal_id].iteration_id = csess[s].iteration_id]_vars

\* The candidates a decision of the campaign has accepted, at an index of the
\* proposal the entry names, and that no observation of the campaign has.
accepted_unobserved(c) ==
    LET observed_x == {canonical(observations[o].x_raw) : o \in get_observations(c)}
        ds == {d \in 1..Len(decisions) :
                 iterations[decisions[d].iteration_id].campaign_id = c}
        named(a) ==
            IF a.proposal_id \notin 1..Len(proposals) THEN {}
            ELSE {proposals[a.proposal_id].candidates_raw[a.candidate_indices[k] + 1] :
                    k \in {n \in 1..Len(a.candidate_indices) :
                             a.candidate_indices[n] <
                                Len(proposals[a.proposal_id].candidates_raw)}}
    IN {x \in UNION {UNION {named(decisions[d].accepted[i]) :
                               i \in 1..Len(decisions[d].accepted)} : d \in ds} :
          canonical(x) \notin observed_x}

\* C26: get_pending_candidates returns the accepted candidates that no
\* observation of the campaign has, all of them and no other.
C26_PendingIsAcceptedUnobserved ==
    \A c \in CampaignIds :
        {r.x_raw : r \in get_pending_candidates(c)} = accepted_unobserved(c)

DecisionNext ==
    \/ \E s \in Sessions : create_campaign(s)
    \/ \E s \in Sessions, c \in 1..MaxCampaigns : start_iteration_select(s, c)
    \/ \E s \in Sessions : start_iteration_commit(s)
    \/ \E s \in Sessions : start_iteration_status(s)
    \/ \E s \in Sessions : update_status_flush(s)
    \/ \E s \in Sessions, it \in 1..MaxIterations, cands \in CandidateLists :
          ledger_add_proposal(s, it, 1, cands)
    \/ \E s \in Sessions, it \in 1..MaxIterations, a \in AcceptedLists :
          record_decision_check(s, it, a, "None")
    \/ \E s \in Sessions : record_decision_commit(s)

PendingNext ==
    \/ DecisionNext
    \/ \E s \in Sessions, c \in 1..MaxCampaigns :
          engine_add_observation(s, c, [x1 |-> 1, x2 |-> 1], [y |-> 1])

\* ================================================================ processes

ProcessNames == 1..NumNames
ProcessIds == 1..Len(processes)

\* A row of processes as create_from_spec and create_version insert it.
Process(name, version) == [name |-> name, version |-> version, is_active |-> TRUE]

\* A session that is inside no process call.
PSession(result) ==
    [pc |-> "idle", name |-> 0, old |-> {}, new_version |-> 0, result |-> result]

\* The rows of a name, and those of them that are active.
list_by_name(name) == {p \in ProcessIds : processes[p].name = name}

active_versions(name) == {p \in list_by_name(name) : processes[p].is_active}

\* create_from_spec: INSERT of version 1, active, whatever rows the name has.
create_from_spec(s, name) ==
    /\ psess[s].pc = "idle"
    /\ Len(processes) + Cardinality({t \in Sessions : psess[t].pc # "idle"})
          < MaxProcesses
    /\ processes' = Append(processes, Process(name, 1))
    /\ psess' = [psess EXCEPT ![s] = PSession("Process")]
    /\ UNCHANGED <<now, lockState, jobState, campState, ledgerState, fileState>>

\* create_version, the two SELECTs: the active rows of the name, which it
\* marks inactive, and the greatest version of the name; max() of no rows
\* raises ValueError.
create_version_select(s, name) ==
    /\ psess[s].pc = "idle"
    /\ Len(processes) + Cardinality({t \in Sessions : psess[t].pc # "idle"})
          < MaxProcesses
    /\ LET versions == {processes[p].version : p \in list_by_name(name)}
       IN psess' = [psess EXCEPT ![s] =
             IF versions = {} THEN PSession("ValueError")
             ELSE [pc |-> "version_insert", name |-> name,
                   old |-> active_versions(name),
                   new_version |-> (CHOOSE m \in versions :
                                       \A v \in versions : v <= m) + 1,
                   result |-> "none"]]
    /\ UNCHANGED <<now, lockState, jobState, campState, ledgerState, fileState,
                   processes>>

\* create_version, the commit: the UPDATEs of the rows it read as active and
\* the INSERT of the new version.
create_version_commit(s) ==
    /\ psess[s].pc = "version_insert"
    /\ processes' = Append([p \in ProcessIds |->
                               IF p \in psess[s].old
                               THEN [processes[p] EXCEPT !.is_active = FALSE]
                               ELSE processes[p]],
                           Process(psess[s].name, psess[s].new_version))
    /\ psess' = [psess EXCEPT ![s] = PSession("Process")]
    /\ UNCHANGED <<now, lockState, jobState, campState, ledgerState, fileState>>

\* DELETE /processes/{id}: the soft delete, UPDATE ... SET is_active = false.
delete_process(s, p) ==
    /\ psess[s].pc = "idle"
    /\ p \in ProcessIds
    /\ processes' = [processes EXCEPT ![p].is_active = FALSE]
    /\ psess' = [psess EXCEPT ![s] = PSession("None")]
    /\ UNCHANGED <<now, lockState, jobState, campState, ledgerState, fileState>>

\* The importer's _create_or_get_process, the SELECT: an active row of the
\* name is returned as it is, otherwise an INSERT of version 1 is staged.
create_or_get_process_select(s, name) ==
    /\ psess[s].pc = "idle"
    /\ Len(processes) + Cardinality({t \in Sessions : psess[t].pc # "idle"})
          < MaxProcesses
    /\ psess' = [psess EXCEPT ![s] =
          IF active_versions(name) # {} THEN PSession("Process")
          ELSE [pc |-> "import_insert", name |-> name, old |-> {},
                new_version |-> 1, result |-> "none"]]
    /\ UNCHANGED <<now, lockState, jobState, campState, ledgerState, fileState,
                   processes>>

\* _create_or_get_process, the INSERT.
create_or_get_process_insert(s) ==
    /\ psess[s].pc = "import_insert"
    /\ processes' = Append(processes, Process(psess[s].name, psess[s].new_version))
    /\ psess' = [psess EXCEPT ![s] = PSession("Process")]
    /\ UNCHANGED <<now, lockState, jobState, campState, ledgerState, fileState>>

\* ---------------------------------------------------------- process claims

\* C25: no process name has more than one row with is_active set.
C25_ActiveVersionUnique ==
    \A name \in ProcessNames : Cardinality(active_versions(name)) <= 1

\* C39: no two rows of one process name carry the same version.
C39_VersionsUnique ==
    \A p, q \in ProcessIds :
        (p # q /\ processes[p].name = processes[q].name)
        => processes[p].version # processes[q].version

ProcessNext ==
    \/ \E s \in Sessions, name \in ProcessNames : create_from_spec(s, name)
    \/ \E s \in Sessions, name \in ProcessNames : create_version_select(s, name)
    \/ \E s \in Sessions : create_version_commit(s)
    \/ \E s \in Sessions, p \in 1..MaxProcesses : delete_process(s, p)
    \/ \E s \in Sessions, name \in ProcessNames :
          create_or_get_process_select(s, name)
    \/ \E s \in Sessions : create_or_get_process_insert(s)

\* ============================================================== checkpoints

\* strftime("%Y%m%d_%H%M%S") of the clock: the time cut to whole seconds.
strftime(t) == t \div TicksPerSecond

\* checkpoint_iter{iteration_idx}_{strategy_name}_{timestamp}.pt
filename(iteration_idx, strategy_name, timestamp) ==
    <<iteration_idx, strategy_name, timestamp>>

\* A session outside save, after `saved` saves; `result` is the path its last
\* save returned.
KSession(saved, result) ==
    [pc |-> "idle", filepath |-> <<>>, saved |-> saved, result |-> result]

\* save, up to torch.save: reads the clock and builds the path.
save_filepath(s, iteration_idx, strategy_name) ==
    /\ ksess[s].pc = "idle"
    /\ ksess[s].saved < MaxSaves
    /\ ksess' = [ksess EXCEPT ![s] =
          [@ EXCEPT !.pc = "torch_save",
                    !.filepath = filename(iteration_idx, strategy_name,
                                          strftime(now))]]
    /\ UNCHANGED <<now, lockState, jobState, campState, ledgerState, procState,
                   checkpoint_files>>

\* save, torch.save(checkpoint_data, filepath): creates the file or replaces
\* the one the path names; the file holds this save's data.
torch_save(s) ==
    /\ ksess[s].pc = "torch_save"
    /\ checkpoint_files' = (ksess[s].filepath :> <<s, ksess[s].saved + 1>>)
                              @@ checkpoint_files
    /\ ksess' = [ksess EXCEPT ![s] = KSession(@.saved + 1, @.filepath)]
    /\ UNCHANGED <<now, lockState, jobState, campState, ledgerState, procState>>

\* -------------------------------------------------------- checkpoint claims

\* C30: no save writes to a path that holds the checkpoint of another save.
C30_NoCheckpointOverwritten ==
    [][\A s \in Sessions :
         torch_save(s) => ksess[s].filepath \notin DOMAIN checkpoint_files]_vars

CheckpointNext ==
    \/ Tick
    \/ \E s \in Sessions, iteration_idx \in 0..(MaxIterations - 1),
          strategy_name \in 1..NumStrategies :
          save_filepath(s, iteration_idx, strategy_name)
    \/ \E s \in Sessions : torch_save(s)

\* ============================================================= the encoder

\* Encoded values are counted in steps of 1/Scale: 0 is 0.0, Scale is 1.0.
Scale == 4

\* The inputs of two process specifications.  The first has one continuous
\* input x in [0, 4].  The second has the categorical input use (levels 0, 1),
\* the categorical input additive (levels 0, 1), active if use is 1, and the
\* discrete input conc on the grid 1, 3, 5, active if additive is 1.  A
\* categorical level is written as a number; active_if is a set of pairs of a
\* name and the values that activate.
ProcessSpecs ==
    {<<[name |-> "x", type |-> "ContinuousInput", values |-> <<0, 1, 2, 3, 4>>,
        bounds |-> <<0, 4>>, is_conditional |-> FALSE, active_if |-> {}]>>,
     <<[name |-> "use", type |-> "CategoricalInput", values |-> <<0, 1>>,
        bounds |-> <<0, 1>>, is_conditional |-> FALSE, active_if |-> {}],
       [name |-> "additive", type |-> "CategoricalInput", values |-> <<0, 1>>,
        bounds |-> <<0, 1>>, is_conditional |-> TRUE, active_if |-> {<<"use", {1}>>}],
       [name |-> "conc", type |-> "DiscreteInput", values |-> <<1, 3, 5>>,
        bounds |-> <<1, 5>>, is_conditional |-> TRUE,
        active_if |-> {<<"additive", {1}>>}]>>}

\* The input maps that are valid under a specification: every input has one
\* of its values (for the continuous input: a value within its bounds).
RawMaps(input_info) ==
    {m \in [{input_info[i].name : i \in 1..Len(input_info)} -> 0..5] :
        \A i \in 1..Len(input_info) :
            \E k \in 1..Len(input_info[i].values) :
                m[input_info[i].name] = input_info[i].values[k]}

\* _check_activity on one row: every referenced input has one of the values.
check_activity(active_if, m) == \A ref \in active_if : m[ref[1]] \in ref[2]

\* np.argmax: the first index of the largest entry.
argmax(one_hot) ==
    CHOOSE i \in 1..Len(one_hot) :
        /\ \A j \in 1..Len(one_hot) : one_hot[j] <= one_hot[i]
        /\ \A j \in 1..(i - 1) : one_hot[j] < one_hot[i]

\* np.argmin(np.abs(grid - v)): the first index of the nearest grid value.
argmin_abs(grid, v) ==
    LET dist(i) == IF grid[i] >= v THEN grid[i] - v ELSE v - grid[i]
    IN CHOOSE i \in 1..Len(grid) :
          /\ \A j \in 1..Len(grid) : dist(i) <= dist(j)
          /\ \A j \in 1..(i - 1) : dist(j) > dist(i)

\* encode of one row, input by input: the content columns, then the activity
\* column of a conditional input.
RECURSIVE encode(_, _)
encode(input_info, m) ==
    IF input_info = <<>> THEN <<>>
    ELSE LET info == Head(input_info)
             is_active_ == check_activity(info.active_if, m)
             lo == info.bounds[1]
             hi == info.bounds[2]
             normalized == ((m[info.name] - lo) * Scale) \div (hi - lo)
             clipped == IF normalized < 0 THEN 0
                        ELSE IF normalized > Scale THEN Scale ELSE normalized
             columns ==
                IF info.type = "CategoricalInput"
                THEN [k \in 1..Len(info.values) |->
                         IF is_active_ /\ m[info.name] = info.values[k] THEN Scale ELSE 0]
                ELSE <<IF is_active_ THEN clipped ELSE Scale \div 2>>
             activity == IF info.is_conditional
                         THEN <<IF is_active_ THEN Scale ELSE 0>> ELSE <<>>
         IN columns \o activity \o encode(Tail(input_info), m)

\* decode of one row: a value for every input, the activity column skipped.
RECURSIVE decode(_, _)
decode(input_info, encoded) ==
    IF input_info = <<>> THEN <<>>
    ELSE LET info == Head(input_info)
             lo == info.bounds[1]
             hi == info.bounds[2]
             n == IF info.type = "CategoricalInput" THEN Len(info.values) ELSE 1
             v == (encoded[1] * (hi - lo)) \div Scale + lo
             value == IF info.type = "ContinuousInput" THEN v
                      ELSE IF info.type = "DiscreteInput"
                      THEN info.values[argmin_abs(info.values, v)]
                      ELSE info.values[argmax(SubSeq(encoded, 1, n))]
             width == n + IF info.is_conditional THEN 1 ELSE 0
         IN (info.name :> value)
               @@ decode(Tail(input_info), SubSeq(encoded, width + 1, Len(encoded)))

\* snap_to_grid on one row: a discrete column is denormalized, snapped and
\* renormalized, a one-hot group becomes the one-hot of its argmax, the
\* continuous and the activity columns stay.
RECURSIVE snap_row(_, _)
snap_row(input_info, row) ==
    IF input_info = <<>> THEN <<>>
    ELSE LET info == Head(input_info)
             lo == info.bounds[1]
             hi == info.bounds[2]
             n == IF info.type = "CategoricalInput" THEN Len(info.values) ELSE 1
             v == (row[1] * (hi - lo)) \div Scale + lo
             columns ==
                IF info.type = "DiscreteInput"
                THEN <<((info.values[argmin_abs(info.values, v)] - lo) * Scale)
                          \div (hi - lo)>>
                ELSE IF info.type = "ContinuousInput" THEN <<row[1]>>
                ELSE [k \in 1..n |->
                         IF k = argmax(SubSeq(row, 1, n)) THEN Scale ELSE 0]
             width == n + IF info.is_conditional THEN 1 ELSE 0
         IN columns \o SubSeq(row, n + 1, width)
               \o snap_row(Tail(input_info), SubSeq(row, width + 1, Len(row)))

\* snap_to_grid on an array of one or two dimensions: the rows are snapped,
\* and a result of one row is squeezed, which drops every axis of length 1.
snap_to_grid(input_info, encoded) ==
    LET result == [i \in 1..Len(encoded.rows) |-> snap_row(input_info, encoded.rows[i])]
    IN [ndim |-> IF Len(result) # 1 THEN 2
                 ELSE IF Len(result[1]) = 1 THEN 0 ELSE 1,
        rows |-> result]

\* The values a column of an array handed to snap_to_grid may have.
ColumnValues == {0, 1, Scale}

\* The arrays handed to snap_to_grid: one candidate, as a vector or as a
\* matrix of one row.
EncodedArrays(input_info) ==
    LET d == Len(encode(input_info, CHOOSE m \in RawMaps(input_info) : TRUE))
    IN [ndim : {1, 2}, rows : {<<row>> : row \in [1..d -> ColumnValues]}]

\* encode_single on the x_raw of the observation.
encode_single(s) ==
    /\ csess[s].pc = "idle"
    /\ observations # <<>>
    /\ csess' = [csess EXCEPT ![s] =
          [CSession("encoded") EXCEPT
              !.array = encode(processes[1].spec_parsed, observations[1].x_raw)]]
    /\ UNCHANGED <<now, lockState, jobState, procState, fileState, ledgerState, campaigns,
                   iterations, decisions>>

\* decode_single on what encode_single returned.
decode_single(s) ==
    /\ csess[s].pc = "idle"
    /\ csess[s].result = "encoded"
    /\ csess' = [csess EXCEPT ![s] =
          [CSession("decoded") EXCEPT
              !.array = decode(processes[1].spec_parsed, csess[s].array)]]
    /\ UNCHANGED <<now, lockState, jobState, procState, fileState, ledgerState, campaigns,
                   iterations, decisions>>

\* snap_to_grid on the candidates, or on what the last snap_to_grid returned.
\* An array without dimensions cannot be indexed by row: IndexError.
project(s) ==
    /\ csess[s].pc = "idle"
    /\ proposals # <<>>
    /\ LET again == csess[s].result = "snapped"
           encoded == IF again THEN csess[s].array
                      ELSE proposals[1].candidates_encoded
       IN csess' = [csess EXCEPT ![s] =
             IF encoded.ndim = 0 THEN CSession("IndexError")
             ELSE [CSession(IF again THEN "snapped twice" ELSE "snapped") EXCEPT
                      !.array = snap_to_grid(processes[1].spec_parsed, encoded)]]
    /\ UNCHANGED <<now, lockState, jobState, procState, fileState, ledgerState, campaigns,
                   iterations, decisions>>

\* C32: what decode gives for the encoding of a valid input map has the
\* value of the map on every active input, and every input is active in it
\* exactly when it is active in the map.
C32_DecodeEncodeRoundTrip ==
    \A s \in Sessions :
        csess[s].result = "decoded"
        => LET input_info == processes[1].spec_parsed
               m == observations[1].x_raw
               decoded == csess[s].array
           IN \A i \in 1..Len(input_info) :
                 /\ check_activity(input_info[i].active_if, m)
                       => decoded[input_info[i].name] = m[input_info[i].name]
                 /\ check_activity(input_info[i].active_if, m)
                       <=> check_activity(input_info[i].active_if, decoded)

\* C33: snap_to_grid applied to its own result returns that result.
C33_SnapIsIdempotent ==
    [][\A s \in Sessions :
         (project(s) /\ csess[s].result = "snapped")
         => /\ csess'[s].result = "snapped twice"
            /\ csess'[s].array = csess[s].array]_vars

\* An encoder of one of the specifications, and either an observation with a
\* valid input map or a proposal with an encoded candidate.
EncoderInit ==
    /\ now = 0
    /\ campaign_locks = {}
    /\ lsess = [s \in Sessions |-> LSession(0, 0, "none", 0, 0)]
    /\ jobs = <<>>
    /\ jsess = [s \in Sessions |-> JSession("none", 0)]
    /\ returned = <<>>
    /\ campaigns = <<[status |-> "ACTIVE"]>>
    /\ iterations = <<>>
    /\ decisions = <<>>
    /\ csess = [s \in Sessions |-> CSession("none")]
    /\ \E input_info \in ProcessSpecs :
          /\ processes = <<[name |-> 1, version |-> 1, is_active |-> TRUE,
                            spec_parsed |-> input_info]>>
          /\ \/ /\ proposals = <<>>
                /\ \E m \in RawMaps(input_info) :
                      observations = <<[campaign_id |-> 1, x_raw |-> m, y |-> [y |-> 1]]>>
             \/ /\ observations = <<>>
                /\ \E encoded \in EncodedArrays(input_info) :
                      proposals = <<[iteration_id |-> 0, strategy_name |-> 1,
                                     candidates_encoded |-> encoded]>>
    /\ psess = [s \in Sessions |-> PSession("none")]
    /\ checkpoint_files = <<>>
    /\ ksess = [s \in Sessions |-> KSession(0, <<>>)]

EncoderNext ==
    \/ \E s \in Sessions : encode_single(s)
    \/ \E s \in Sessions : decode_single(s)
    \/ \E s \in Sessions : project(s)

\* ============================================================ the analyzer

\* The objectives of the process: y1 is maximized, y2 is minimized.
Objectives ==
    <<[name |-> "y1", is_maximization |-> TRUE],
      [name |-> "y2", is_maximization |-> FALSE]>>

\* What nan_to_num(nan = -inf) puts in the place of a NaN.
NegInf == 0 - (MaxY + 1)

\* The y of the observations an analyzer is given: both objectives, or one of
\* them missing, or none.
ParetoYs ==
    [y1 : 1..MaxY, y2 : 1..MaxY] \cup {[y1 |-> 1], [y2 |-> 1], [other |-> 1]}

ParetoObservations ==
    UNION {[1..n -> {[campaign_id |-> 1, x_raw |-> [x1 |-> 0], y |-> y] : y \in ParetoYs}]
              : n \in 0..MaxPoints}

\* The observations of scenario S2.
S2_Observations ==
    [i \in 1..4 |->
        [campaign_id |-> 1, x_raw |-> [x1 |-> 0],
         y |-> <<[y1 |-> 1, y2 |-> 1], [y1 |-> 2, y2 |-> 3],
                 [y1 |-> 3, y2 |-> 2], [y1 |-> 4, y2 |-> 4]>>[i]]]

\* A variant of Y_max that does not flip the minimized objectives.
Y_raw(obs, i) ==
    IF Objectives[i].name \notin DOMAIN obs.y THEN NegInf
    ELSE obs.y[Objectives[i].name]

\* _build_arrays and the head of _get_pareto_mask on one entry: a missing
\* objective is NaN, the value of a minimized objective is negated, and NaN
\* becomes -inf.
Y_max(obs, i) ==
    IF Objectives[i].name \notin DOMAIN obs.y THEN NegInf
    ELSE IF Objectives[i].is_maximization THEN obs.y[Objectives[i].name]
    ELSE 0 - obs.y[Objectives[i].name]

\* _get_pareto_mask: row i stays True unless some other row j is at least as
\* good everywhere and strictly better somewhere.
get_pareto_mask(obs) ==
    [i \in 1..Len(obs) |->
        ~ \E j \in 1..Len(obs) :
            /\ i # j
            /\ \A k \in 1..Len(Objectives) : Y_max(obs[j], k) >= Y_max(obs[i], k)
            /\ \E k \in 1..Len(Objectives) : Y_max(obs[j], k) > Y_max(obs[i], k)]

\* get_pareto_front of the analyzer of a campaign's observations.
get_pareto_front(s) ==
    /\ csess[s].pc = "idle"
    /\ csess' = [csess EXCEPT ![s] =
          [CSession("ParetoFront") EXCEPT !.mask = get_pareto_mask(observations)]]
    /\ UNCHANGED <<now, lockState, jobState, procState, fileState, ledgerState, campaigns,
                   iterations, decisions>>

\* a is at least as good as b in objective k: larger when the objective is
\* maximized, smaller when it is minimized, and a missing value is the worst.
at_least_as_good(a, b, k) ==
    LET name == Objectives[k].name
    IN IF name \notin DOMAIN b.y THEN TRUE
       ELSE IF name \notin DOMAIN a.y THEN FALSE
       ELSE IF Objectives[k].is_maximization THEN a.y[name] >= b.y[name]
       ELSE a.y[name] <= b.y[name]

\* The partial order of the specification: a dominates b.
dominates(a, b) ==
    /\ \A k \in 1..Len(Objectives) : at_least_as_good(a, b, k)
    /\ \E k \in 1..Len(Objectives) : ~ at_least_as_good(b, a, k)

\* C34: the mask get_pareto_front computed marks exactly the observations no
\* other observation dominates; for the observations of S2 these are (1,1),
\* (3,2) and (4,4), and (2,3) is not among them.
C34_ParetoIsNonDominated ==
    \A s \in Sessions :
        csess[s].result = "ParetoFront"
        => /\ Len(csess[s].mask) = Len(observations)
           /\ \A i \in 1..Len(observations) :
                 csess[s].mask[i] <=>
                    ~ \E j \in 1..Len(observations) :
                         j # i /\ dominates(observations[j], observations[i])
           /\ observations = S2_Observations
                 => csess[s].mask = <<TRUE, FALSE, TRUE, TRUE>>

\* C34 witness: the front of the S2 observations has been computed.
C34_Witness ==
    \E s \in Sessions :
        /\ csess[s].result = "ParetoFront"
        /\ observations = S2_Observations
        /\ csess[s].mask = <<TRUE, FALSE, TRUE, TRUE>>

\* An analyzer over a list of observations of one campaign: every list of up
\* to MaxPoints observations, and the list of S2.
ParetoInit ==
    /\ now = 0
    /\ campaign_locks = {}
    /\ lsess = [s \in Sessions |-> LSession(0, 0, "none", 0, 0)]
    /\ jobs = <<>>
    /\ jsess = [s \in Sessions |-> JSession("none", 0)]
    /\ returned = <<>>
    /\ campaigns = <<[status |-> "ACTIVE"]>>
    /\ iterations = <<>>
    /\ decisions = <<>>
    /\ csess = [s \in Sessions |-> CSession("none")]
    /\ proposals = <<>>
    /\ observations \in ParetoObservations \cup {S2_Observations}
    /\ processes = <<>>
    /\ psess = [s \in Sessions |-> PSession("none")]
    /\ checkpoint_files = <<>>
    /\ ksess = [s \in Sessions |-> KSession(0, <<>>)]

ParetoNext == \E s \in Sessions : get_pareto_front(s)

\* ========================================================= specifications

Init ==
    /\ now = 0
    /\ campaign_locks = {}
    /\ lsess = [s \in Sessions |-> LSession(0, 0, "none", 0, 0)]
    /\ jobs = <<>>
    /\ jsess = [s \in Sessions |-> JSession("none", 0)]
    /\ returned = <<>>
    /\ campaigns = <<>>
    /\ iterations = <<>>
    /\ decisions = <<>>
    /\ csess = [s \in Sessions |-> CSession("none")]
    /\ proposals = <<>>
    /\ observations = <<>>
    /\ processes = <<>>
    /\ psess = [s \in Sessions |-> PSession("none")]
    /\ checkpoint_files = <<>>
    /\ ksess = [s \in Sessions |-> KSession(0, <<>>)]

LockNext ==
    \/ Tick
    \/ \E s \in Sessions, c \in Campaigns, ttl \in TTLs : acquire_write_lock_check(s, c, ttl)
    \/ \E s \in Sessions : acquire_write_lock_flush(s)
    \/ \E s \in Sessions, c \in Campaigns : \E by \in {0, s} :
          release_write_lock_check(s, c, by)
    \/ \E s \in Sessions : release_write_lock_flush(s)
    \/ \E s \in Sessions : cleanup_expired_locks_select(s)
    \/ \E s \in Sessions : cleanup_expired_locks_flush(s)

SpecLock == Init /\ [][LockNext]_vars

SpecJobs == Init /\ [][JobNext]_vars

SpecJobForever == Init /\ [][JobForeverNext]_vars /\ JobForeverFairness

SpecJobStale == Init /\ [][JobStaleNext]_vars

SpecJobPurge == Init /\ [][JobPurgeNext]_vars

SpecCampaign == Init /\ [][CampaignNext]_vars

SpecEngine == Init /\ [][EngineNext]_vars

SpecStrategy == Init /\ [][StrategyNext]_vars

SpecExport == Init /\ [][ExportNext]_vars

SpecPareto == ParetoInit /\ [][ParetoNext]_vars

SpecEncoder == EncoderInit /\ [][EncoderNext]_vars

SpecObservation == Init /\ [][ObservationNext]_vars

SpecDecision == Init /\ [][DecisionNext]_vars

SpecPending == Init /\ [][PendingNext]_vars

SpecProcess == Init /\ [][ProcessNext]_vars

SpecCheckpoint == Init /\ [][CheckpointNext]_vars

====
